---- MODULE Spec2Model ----
(***************************************************************************)
(* Dual-core submarine controller: the Core 0 safety monitor, the          *)
(* emergency blow procedure, the actuator drivers they command, the global *)
(* event log and the Core 1 control loop that shares state with them.      *)
(*                                                                         *)
(* Every C function is an operator from a memory record to the memory      *)
(* record after the call.  A failed P10_ASSERT sets the field "fail" and   *)
(* every later statement of the interrupted call chain is skipped; the     *)
(* core then runs p10_assert_fail and never returns to the loop.           *)
(* The status LED (update_heartbeat_led) is an output no operation reads   *)
(* back; it is left out of the memory.                                     *)
(***************************************************************************)
EXTENDS Integers, Sequences, FiniteSets, TLC

(***************************** program constants ***************************)
SIGNAL_TIMEOUT_MS == 3000
MAX_DEPTH_CM == 300
MAX_PITCH_DEG == 45
MIN_BATTERY_MV == 6400
CORE1_STALL_THRESHOLD == 10
EVENT_LOG_SIZE == 32
BOOT_DELAY_MS == 1000
\* uint32_t: 2^32 = UINT32_HALF_WIDTH * UINT32_HALF_WIDTH
UINT32_HALF_WIDTH == 65536
\* state_machine.c
SURFACE_DEPTH_CM == 10
DIVE_COMPLETE_CM == 50
\* ballast_ctrl.c
BALLAST_FILL_TIME_MS == 10000
BALLAST_LEVEL_TOLERANCE == 5
BALLAST_FULL_RANGE_UNITS == 200
BALLAST_SCALE_X1000 == 1000

(********************************* bounds **********************************)
\* number of disturbing inputs in a run: timer advances, leak probe
\* changes, low battery readings, over-limit depth or pitch readings
MaxDisturbances == 1
\* largest value the Core 1 heartbeat counter reaches in a run
MaxHeartbeat == 1
\* largest value of the stall counter explored (the C counter is a uint32)
MaxStallCount == 11

(***************************** enumerations ********************************)
\* FaultFlags_t: the bit of g_faults.all each flag occupies; core1_stall is
\* bit 8, as safety_monitor_run's mask has it
FaultBitIndex ==
  [signal_lost |-> 0, low_battery |-> 1, leak |-> 2, depth_exceeded |-> 3,
   pitch_exceeded |-> 4, i2c_error |-> 5, sensor_fault |-> 6, watchdog |-> 7,
   core1_stall |-> 8]

FaultBits == DOMAIN FaultBitIndex

EventCodes == {"EVT_NONE", "EVT_BOOT", "EVT_INIT_COMPLETE", "EVT_SIGNAL_LOST",
               "EVT_SIGNAL_RESTORED", "EVT_LOW_BATTERY", "EVT_LEAK_DETECTED",
               "EVT_DEPTH_EXCEEDED", "EVT_PITCH_EXCEEDED", "EVT_EMERGENCY_BLOW",
               "EVT_CORE1_STALL", "EVT_ASSERT_FAIL"}

ServoChannels == {"SERVO_RUDDER", "SERVO_BOWPLANE", "SERVO_STERNPLANE"}

\* millisecond clock steps: one tick of the timer, and one past the signal
\* timeout
TimeSteps == {1, SIGNAL_TIMEOUT_MS + 1}
\* battery readings (mV): below and at the threshold
BatteryReadings == {MIN_BATTERY_MV - 1, MIN_BATTERY_MV}
\* depth readings (cm): surface, and one past the limit
DepthReadings == {0, MAX_DEPTH_CM + 1}
\* pitch readings (tenths of a degree): level, and one degree past the limit
PitchReadings == {0, -10 * (MAX_PITCH_DEG + 1)}
\* plane and rudder commands the control loop issues
ControlCommands == {-100}
\* ballast states whose pump and valve commands the control loop issues
BallastStates == {"FILLING"}

VARIABLES
  \* safety_monitor.c
  g_faults, g_emergency, g_last_rc_valid_ms, g_current_depth_cm,
  g_current_pitch_x10, s_last_heartbeat, s_stall_count, g_core1_heartbeat,
  \* emergency.c
  emergency_active, emergency_reason,
  \* drivers: valve.c, pump.c, servo.c, battery.c, leak.c
  valve_initialized, valve_is_open, pump_initialized, pump_speed,
  servo_initialized, servo_position, battery_initialized, leak_initialized,
  s_leak_flag,
  \* log.c
  log_entries, log_head, log_count,
  \* hardware and environment
  clock_ms, leak_pin, disturbances, watchdog_fed,
  \* control flow of the two cores
  pc0, pc1, now_ms,
  \* observation of the run (not program state)
  trigger_calls, hb_advanced

memvars == <<g_faults, g_emergency, g_last_rc_valid_ms, g_current_depth_cm,
             g_current_pitch_x10, s_last_heartbeat, s_stall_count,
             g_core1_heartbeat, emergency_active, emergency_reason,
             valve_initialized, valve_is_open, pump_initialized, pump_speed,
             servo_initialized, servo_position, battery_initialized,
             leak_initialized, s_leak_flag, log_entries, log_head, log_count,
             watchdog_fed, trigger_calls>>

vars == <<memvars, clock_ms, leak_pin, disturbances, pc0, pc1, now_ms,
          hb_advanced>>

VARIABLES
  \* state_machine.c: the caller's StateMachine_t, the build (NDEBUG defined
  \* or not), the time of the latest call, and whether a P10_ASSERT has failed
  sm, ndebug, sm_now_ms, sm_failed,
  \* the latest call made on the state machine (not program state)
  sm_call,
  \* ballast_ctrl.c: the caller's BallastController_t, the time of the latest
  \* call and the two outputs of ballast_ctrl_update
  ctrl, ballast_now_ms, pump_speed_out, valve_open_out,
  \* the latest call made on the ballast controller, and the updates made and
  \* the error met by the latest ballast_ctrl_set_target (not program state)
  ballast_call, ballast_updates, start_error

smvars == <<sm, ndebug, sm_now_ms, sm_failed, sm_call>>

ballastvars == <<ctrl, ballast_now_ms, pump_speed_out, valve_open_out,
                 ballast_call, ballast_updates, start_error>>

VARIABLES
  \* log.c: the caller's EventLog_t and the entry_out and return value of
  \* the latest log_get_newest
  event_log, got,
  \* the entries appended since the latest log_init, oldest first, the time
  \* stamps the caller supplies, and the latest call (not program state)
  appended, stamps, log_call

logvars == <<event_log, got, appended, stamps, log_call>>

VARIABLES
  \* pid.c: the caller's PidController_t, the value the latest pid_update
  \* returned, and whether a P10_ASSERT has failed
  pid, pid_output, pid_failed,
  \* the latest call made on the PID controller (not program state)
  pid_call,
  \* depth_ctrl.c and pitch_ctrl.c: the caller's DepthController_t and
  \* PitchController_t, the commands the latest updates returned, and whether
  \* a P10_ASSERT has failed
  depth_ctrl, pitch_ctrl, ballast_cmd, pitch_cmd, axis_failed,
  \* the latest call made on either controller, with the controller as the
  \* call found it (not program state)
  axis_call

pidvars == <<pid, pid_output, pid_failed, pid_call>>

axisvars == <<depth_ctrl, pitch_ctrl, ballast_cmd, pitch_cmd, axis_failed,
              axis_call>>

VARIABLES
  \* the inter-core FIFO from Core 1 to Core 0, oldest word first
  fifo,
  \* handshake.c on Core 0: where handshake_wait_for_core1 stands, the loop
  \* counter of the wait it is in, and the value it returned
  hs_pc, hs_i, hs_result,
  \* the words the call has popped, oldest first, and the words Core 1 has
  \* pushed (not program state)
  hs_received, hs_pushed

handshakevars == <<fifo, hs_pc, hs_i, hs_result, hs_received, hs_pushed>>

\* the variables of the modules that run on their own
libvars == <<smvars, ballastvars, logvars, pidvars, axisvars, handshakevars>>
\* everything but the state machine, the ballast controller, the log, the
\* PID controller, the depth and pitch controllers
notsmvars == <<vars, ballastvars, logvars, pidvars, axisvars, handshakevars>>
notballastvars == <<vars, smvars, logvars, pidvars, axisvars, handshakevars>>
notlogvars == <<vars, smvars, ballastvars, pidvars, axisvars, handshakevars>>
notpidvars == <<vars, sm, sm_now_ms, sm_failed, sm_call, ballastvars, logvars,
                axisvars, handshakevars>>
notaxisvars == <<vars, sm, sm_now_ms, sm_failed, sm_call, ballastvars, logvars,
                 pidvars, handshakevars>>
nothandshakevars == <<vars, smvars, ballastvars, logvars, pidvars, axisvars>>

(******************************* the memory ********************************)
\* The statics of safety_monitor.c, emergency.c, the drivers and the log as
\* one record; "fail" is raised by a failed P10_ASSERT.
Mem ==
  [ g_faults |-> g_faults, g_emergency |-> g_emergency,
    g_last_rc_valid_ms |-> g_last_rc_valid_ms,
    g_current_depth_cm |-> g_current_depth_cm,
    g_current_pitch_x10 |-> g_current_pitch_x10,
    s_last_heartbeat |-> s_last_heartbeat, s_stall_count |-> s_stall_count,
    g_core1_heartbeat |-> g_core1_heartbeat,
    emergency_active |-> emergency_active, emergency_reason |-> emergency_reason,
    valve_initialized |-> valve_initialized, valve_is_open |-> valve_is_open,
    pump_initialized |-> pump_initialized, pump_speed |-> pump_speed,
    servo_initialized |-> servo_initialized, servo_position |-> servo_position,
    battery_initialized |-> battery_initialized,
    leak_initialized |-> leak_initialized, s_leak_flag |-> s_leak_flag,
    log_entries |-> log_entries, log_head |-> log_head, log_count |-> log_count,
    watchdog_fed |-> watchdog_fed, trigger_calls |-> trigger_calls,
    fail |-> FALSE ]

Commit(m) ==
  /\ g_faults' = m.g_faults
  /\ g_emergency' = m.g_emergency
  /\ g_last_rc_valid_ms' = m.g_last_rc_valid_ms
  /\ g_current_depth_cm' = m.g_current_depth_cm
  /\ g_current_pitch_x10' = m.g_current_pitch_x10
  /\ s_last_heartbeat' = m.s_last_heartbeat
  /\ s_stall_count' = m.s_stall_count
  /\ g_core1_heartbeat' = m.g_core1_heartbeat
  /\ emergency_active' = m.emergency_active
  /\ emergency_reason' = m.emergency_reason
  /\ valve_initialized' = m.valve_initialized
  /\ valve_is_open' = m.valve_is_open
  /\ pump_initialized' = m.pump_initialized
  /\ pump_speed' = m.pump_speed
  /\ servo_initialized' = m.servo_initialized
  /\ servo_position' = m.servo_position
  /\ battery_initialized' = m.battery_initialized
  /\ leak_initialized' = m.leak_initialized
  /\ s_leak_flag' = m.s_leak_flag
  /\ log_entries' = m.log_entries
  /\ log_head' = m.log_head
  /\ log_count' = m.log_count
  /\ watchdog_fed' = m.watchdog_fed
  /\ trigger_calls' = m.trigger_calls

\* P10_ASSERT(cond): a false condition enters p10_assert_fail, which never
\* returns, so the rest of the call chain does not run.
P10_ASSERT(m, cond) == IF cond THEN m ELSE [m EXCEPT !.fail = TRUE]

ABS(x) == IF x < 0 THEN -x ELSE x

\* x < 2^32
InUint32(x) == x >= 0 /\ (x \div UINT32_HALF_WIDTH) < UINT32_HALF_WIDTH

\* C integer division truncates toward zero
CDiv(a, b) == IF a >= 0 THEN a \div b ELSE -((-a) \div b)

(********************************* log.c ***********************************)
next_index(idx) == IF idx + 1 >= EVENT_LOG_SIZE THEN 0 ELSE idx + 1

wrap_sub(a, b) == IF a >= b THEN a - b ELSE EVENT_LOG_SIZE - (b - a)

\* log_init clears every entry, the head and the count
log_init(m) ==
  IF m.fail THEN m ELSE
  [m EXCEPT !.log_entries = [i \in 0..(EVENT_LOG_SIZE - 1) |-> "EVT_NONE"],
            !.log_head = 0, !.log_count = 0]

\* log_event stores the entry at head, advances head, saturates count.
\* Of an entry this memory keeps the event code.
log_event(m, code) ==
  IF m.fail THEN m ELSE
  [m EXCEPT !.log_entries = [@ EXCEPT ![m.log_head] = code],
            !.log_head = next_index(m.log_head),
            !.log_count = IF @ < EVENT_LOG_SIZE THEN @ + 1 ELSE @]

\* the codes stored, oldest first
RECURSIVE LogFrom(_, _, _)
LogFrom(entries, idx, n) ==
  IF n = 0 THEN <<>>
  ELSE <<entries[idx]>> \o LogFrom(entries, next_index(idx), n - 1)

LogSeq == LogFrom(log_entries, wrap_sub(log_head, log_count % EVENT_LOG_SIZE), log_count)

LogCountOf(code) == Cardinality({i \in 1..Len(LogSeq) : LogSeq[i] = code})

(******************************** drivers **********************************)
valve_open(m) ==
  IF m.fail THEN m ELSE
  LET a == P10_ASSERT(m, m.valve_initialized)
  IN IF a.fail THEN a ELSE [a EXCEPT !.valve_is_open = TRUE]

valve_close(m) ==
  IF m.fail THEN m ELSE [m EXCEPT !.valve_is_open = FALSE]

\* speed_to_level clamps the magnitude; the direction pin carries the sign
pump_set_speed(m, speed) ==
  IF m.fail THEN m ELSE
  LET a == P10_ASSERT(m, m.pump_initialized)
      s == IF speed > 100 THEN 100 ELSE IF speed < -100 THEN -100 ELSE speed
  IN IF a.fail THEN a ELSE [a EXCEPT !.pump_speed = s]

pump_stop(m) ==
  IF m.fail THEN m ELSE [m EXCEPT !.pump_speed = 0]

servo_set_position(m, channel, position) ==
  IF m.fail THEN m ELSE
  LET a == P10_ASSERT(P10_ASSERT(m, channel \in ServoChannels), m.servo_initialized)
      p == IF position > 100 THEN 100 ELSE IF position < -100 THEN -100 ELSE position
  IN IF a.fail THEN a ELSE [a EXCEPT !.servo_position[channel] = p]

\* battery_read_mv: the ADC conversion result is the input mv
battery_read_mv(m) == P10_ASSERT(m, m.battery_initialized)

\* leak_detected: the latched interrupt flag or the pin level
leak_detected(m, pin) == m.leak_initialized /\ (m.s_leak_flag \/ pin)

(****************************** emergency.c ********************************)
trigger_emergency_blow(m, reason) ==
  IF m.fail THEN m ELSE
  LET a  == P10_ASSERT(m, reason \in EventCodes)
      m1 == [a EXCEPT !.emergency_active = TRUE, !.emergency_reason = reason,
                      !.trigger_calls = @ + 1]
      m2 == valve_open(m1)
      m3 == pump_set_speed(m2, -100)
      m4 == servo_set_position(m3, "SERVO_RUDDER", 0)
      m5 == servo_set_position(m4, "SERVO_BOWPLANE", 100)
      m6 == servo_set_position(m5, "SERVO_STERNPLANE", 100)
  IN IF a.fail THEN a ELSE log_event(m6, reason)

\* faulty variant: the maintain call ends the emergency once it has re-issued
\* the commands
emergency_blow_run_cancelling(m) ==
  IF m.fail \/ ~m.emergency_active THEN m
  ELSE [servo_set_position(
          servo_set_position(pump_set_speed(valve_open(m), -100),
                             "SERVO_BOWPLANE", 100),
          "SERVO_STERNPLANE", 100) EXCEPT !.emergency_active = FALSE]

\* faulty variant: the maintain call re-issues the valve and pump commands
\* but not the planes
emergency_blow_run_without_planes(m) ==
  IF m.fail \/ ~m.emergency_active THEN m
  ELSE pump_set_speed(valve_open(m), -100)

emergency_blow_run(m) ==
  IF m.fail THEN m ELSE
  LET a  == P10_ASSERT(m, m.emergency_reason \in EventCodes)
      m1 == valve_open(a)
      m2 == pump_set_speed(m1, -100)
      m3 == servo_set_position(m2, "SERVO_BOWPLANE", 100)
  IN IF a.fail \/ ~a.emergency_active THEN a
     ELSE servo_set_position(m3, "SERVO_STERNPLANE", 100)

is_emergency_active(m) == m.emergency_active

\* p10_assert_fail: log, trigger, then the bounded wait, whose first cycle
\* runs emergency_blow_run, finds emergency_complete() and halts.  When
\* trigger itself fails an assertion (a driver is not initialized) the
\* handler is entered again from inside itself; the result then keeps "fail".
p10_assert_fail(m) ==
  LET m1 == log_event([m EXCEPT !.fail = FALSE], "EVT_ASSERT_FAIL")
      m2 == trigger_emergency_blow(m1, "EVT_ASSERT_FAIL")
  IN emergency_blow_run(m2)

(**************************** safety_monitor.c *****************************)
safety_update_rc_time(m, ms) ==
  IF m.fail THEN m ELSE
  LET a == P10_ASSERT(m, InUint32(ms))
  IN IF a.fail THEN a ELSE [a EXCEPT !.g_last_rc_valid_ms = ms]

safety_update_depth(m, depth_cm) ==
  IF m.fail THEN m ELSE
  LET a == P10_ASSERT(P10_ASSERT(m, depth_cm >= 0), depth_cm <= 10000)
  IN IF a.fail THEN a ELSE [a EXCEPT !.g_current_depth_cm = depth_cm]

safety_update_pitch(m, pitch_x10) ==
  IF m.fail THEN m ELSE
  LET a == P10_ASSERT(P10_ASSERT(m, pitch_x10 >= -1800), pitch_x10 <= 1800)
  IN IF a.fail THEN a ELSE [a EXCEPT !.g_current_pitch_x10 = pitch_x10]

safety_monitor_init(m) ==
  IF m.fail THEN m ELSE [m EXCEPT !.g_faults = {}, !.g_emergency = FALSE]

\* watchdog_update(): watchdog_fed tells that the tick in progress has
\* reloaded the watchdog counter
watchdog_update(m) ==
  IF m.fail THEN m ELSE [m EXCEPT !.watchdog_fed = TRUE]

\* (now_ms - g_last_rc_valid_ms) > limit in unsigned 32-bit arithmetic: when
\* last is ahead of now the subtraction wraps to 2^32 - (last - now)
ElapsedExceeds(now, last, limit) ==
  IF now >= last THEN now - last > limit
  ELSE InUint32((last - now) + limit)

check_rc_signal(m, now) ==
  IF m.fail THEN m ELSE
  IF ElapsedExceeds(now, m.g_last_rc_valid_ms, SIGNAL_TIMEOUT_MS)
  THEN IF "signal_lost" \notin m.g_faults
       THEN log_event([m EXCEPT !.g_faults = @ \cup {"signal_lost"}], "EVT_SIGNAL_LOST")
       ELSE m
  ELSE IF "signal_lost" \in m.g_faults
       THEN log_event([m EXCEPT !.g_faults = @ \ {"signal_lost"}], "EVT_SIGNAL_RESTORED")
       ELSE m

\* faulty variant: low_battery follows the reading
check_battery_auto_clearing(m, mv) ==
  IF m.fail THEN m ELSE
  LET a == battery_read_mv(m)
  IN IF a.fail THEN a
     ELSE IF mv < MIN_BATTERY_MV
          THEN [a EXCEPT !.g_faults = @ \cup {"low_battery"}]
          ELSE [a EXCEPT !.g_faults = @ \ {"low_battery"}]

check_battery(m, mv) ==
  IF m.fail THEN m ELSE
  LET a == battery_read_mv(m)
  IN IF a.fail THEN a
     ELSE IF mv < MIN_BATTERY_MV /\ "low_battery" \notin a.g_faults
          THEN log_event([a EXCEPT !.g_faults = @ \cup {"low_battery"}], "EVT_LOW_BATTERY")
          ELSE a

\* faulty variant: leak follows the probe
check_leak_following_probe(m, pin) ==
  IF leak_detected(m, pin)
  THEN [m EXCEPT !.g_faults = @ \cup {"leak"}]
  ELSE [m EXCEPT !.g_faults = @ \ {"leak"}]

check_leak(m, pin) ==
  IF leak_detected(m, pin) /\ "leak" \notin m.g_faults
  THEN log_event([m EXCEPT !.g_faults = @ \cup {"leak"}], "EVT_LEAK_DETECTED")
  ELSE m

\* faulty variant: depth_exceeded is logged on every tick the depth is past
\* the limit
check_depth_logging_every_tick(m) ==
  IF m.g_current_depth_cm > MAX_DEPTH_CM
  THEN log_event([m EXCEPT !.g_faults = @ \cup {"depth_exceeded"}], "EVT_DEPTH_EXCEEDED")
  ELSE m

check_depth(m) ==
  IF m.g_current_depth_cm > MAX_DEPTH_CM /\ "depth_exceeded" \notin m.g_faults
  THEN log_event([m EXCEPT !.g_faults = @ \cup {"depth_exceeded"}], "EVT_DEPTH_EXCEEDED")
  ELSE m

check_pitch(m) ==
  IF ABS(CDiv(m.g_current_pitch_x10, 10)) > MAX_PITCH_DEG
     /\ "pitch_exceeded" \notin m.g_faults
  THEN log_event([m EXCEPT !.g_faults = @ \cup {"pitch_exceeded"}], "EVT_PITCH_EXCEEDED")
  ELSE m

check_sensors(m, pin) ==
  IF m.fail THEN m ELSE check_pitch(check_depth(check_leak(m, pin)))

\* faulty variant: the stall is raised one tick late
check_core1_health_late(m) ==
  IF m.fail THEN m ELSE
  IF m.g_core1_heartbeat = m.s_last_heartbeat
  THEN LET m1 == [m EXCEPT !.s_stall_count = @ + 1]
       IN IF m1.s_stall_count > CORE1_STALL_THRESHOLD + 1
             /\ "core1_stall" \notin m1.g_faults
          THEN trigger_emergency_blow(
                 log_event([m1 EXCEPT !.g_faults = @ \cup {"core1_stall"}], "EVT_CORE1_STALL"),
                 "EVT_CORE1_STALL")
          ELSE m1
  ELSE [m EXCEPT !.s_stall_count = 0, !.g_faults = @ \ {"core1_stall"}]

\* check_core1_health up to the final store: compares the heartbeat read
\* with the one remembered
check_core1_health(m) ==
  IF m.fail THEN m ELSE
  IF m.g_core1_heartbeat = m.s_last_heartbeat
  THEN LET m1 == [m EXCEPT !.s_stall_count = @ + 1]
       IN IF m1.s_stall_count > CORE1_STALL_THRESHOLD /\ "core1_stall" \notin m1.g_faults
          THEN trigger_emergency_blow(
                 log_event([m1 EXCEPT !.g_faults = @ \cup {"core1_stall"}], "EVT_CORE1_STALL"),
                 "EVT_CORE1_STALL")
          ELSE m1
  ELSE [m EXCEPT !.s_stall_count = 0, !.g_faults = @ \ {"core1_stall"}]

\* the last statement of check_core1_health: a second read of the heartbeat
store_last_heartbeat(m) ==
  IF m.fail THEN m ELSE [m EXCEPT !.s_last_heartbeat = m.g_core1_heartbeat]

\* faulty variant: 0x011D, the mask without low_battery
critical_mask_without_battery == 287 - 2

\* uint16_t critical_mask = 0x011F
critical_mask == 287

\* g_faults.all & mask, as the set of flags
FaultsMasked(faults, mask) ==
  {f \in faults : (mask \div 2^FaultBitIndex[f]) % 2 = 1}

\* step 3 of safety_monitor_run
escalate(m) ==
  IF m.fail THEN m ELSE
  IF FaultsMasked(m.g_faults, critical_mask) # {} /\ ~m.g_emergency
  THEN LET t == trigger_emergency_blow(m, "EVT_EMERGENCY_BLOW")
       IN IF t.fail THEN t ELSE [t EXCEPT !.g_emergency = TRUE]
  ELSE m

(************************* main.c: Core 1 start-up *************************)
init_hardware(m) ==
  IF m.fail THEN m ELSE
  LET a == P10_ASSERT(m, ~m.pump_initialized /\ ~m.valve_initialized
                         /\ ~m.servo_initialized /\ ~m.battery_initialized
                         /\ ~m.leak_initialized)
      m1 == [pump_stop(a) EXCEPT !.pump_initialized = TRUE]
      m2 == [valve_close(m1) EXCEPT !.valve_initialized = TRUE]
      m3 == [m2 EXCEPT !.servo_position = [c \in ServoChannels |-> 0],
                       !.servo_initialized = TRUE]
  IN IF a.fail THEN a
     ELSE [m3 EXCEPT !.battery_initialized = TRUE, !.leak_initialized = TRUE]

(***************************** state_machine.c *****************************)
\* The StateMachine_t of the caller together with the build it runs in and
\* the "fail" a failed P10_ASSERT raises.
SmMem ==
  [ state |-> sm.state, target_depth_cm |-> sm.target_depth_cm,
    state_start_ms |-> sm.state_start_ms,
    ballast_target_level |-> sm.ballast_target_level,
    depth_hold_enabled |-> sm.depth_hold_enabled,
    ndebug |-> ndebug, fail |-> FALSE ]

SmCommit(s) ==
  /\ sm' = [ state |-> s.state, target_depth_cm |-> s.target_depth_cm,
             state_start_ms |-> s.state_start_ms,
             ballast_target_level |-> s.ballast_target_level,
             depth_hold_enabled |-> s.depth_hold_enabled ]
  /\ sm_failed' = s.fail

\* P10_ASSERT expands to nothing when NDEBUG is defined
P10_ASSERT_BUILD(s, cond) == IF s.ndebug THEN s ELSE P10_ASSERT(s, cond)

state_machine_set_outputs(s, ballast_level, depth_hold) ==
  [s EXCEPT !.ballast_target_level = ballast_level,
            !.depth_hold_enabled = depth_hold]

state_machine_set_target_depth(s, depth_cm) ==
  LET a == P10_ASSERT_BUILD(s, depth_cm >= 0 /\ depth_cm <= MAX_DEPTH_CM)
  IN IF a.fail THEN a
     ELSE IF depth_cm < 0 \/ depth_cm > MAX_DEPTH_CM THEN a
     ELSE [a EXCEPT !.target_depth_cm = depth_cm]

\* an emergency entry that leaves the outputs as they were
state_machine_trigger_emergency_keeping_outputs(s) ==
  [s EXCEPT !.state = "STATE_EMERGENCY"]

state_machine_trigger_emergency(s) ==
  state_machine_set_outputs([s EXCEPT !.state = "STATE_EMERGENCY"], -100, FALSE)

state_machine_handle_init(s, now) ==
  state_machine_set_outputs(
    [s EXCEPT !.state = "STATE_SURFACE", !.state_start_ms = now], -100, FALSE)

\* a Surface handler that dives without a target depth
state_machine_handle_surface_without_target(s, cmd, now) ==
  IF cmd = "CMD_DIVE"
  THEN state_machine_set_outputs(
         [s EXCEPT !.state = "STATE_DIVING", !.state_start_ms = now], 50, FALSE)
  ELSE state_machine_set_outputs(s, -100, FALSE)

state_machine_handle_surface(s, cmd, now) ==
  LET s1 == state_machine_set_outputs(s, -100, FALSE)
  IN IF cmd = "CMD_DIVE" /\ s1.target_depth_cm > 0
     THEN state_machine_set_outputs(
            [s1 EXCEPT !.state = "STATE_DIVING", !.state_start_ms = now],
            50, FALSE)
     ELSE s1

\* a Diving handler that completes the dive only past the threshold
state_machine_handle_diving_past_threshold(s, cmd, depth_cm, now) ==
  IF cmd = "CMD_SURFACE"
  THEN state_machine_set_outputs(
         [s EXCEPT !.state = "STATE_SURFACING", !.state_start_ms = now],
         -100, FALSE)
  ELSE IF depth_cm > DIVE_COMPLETE_CM
  THEN state_machine_set_outputs(
         [s EXCEPT !.state = "STATE_SUBMERGED_MANUAL", !.state_start_ms = now],
         0, FALSE)
  ELSE state_machine_set_outputs(s, 50, FALSE)

state_machine_handle_diving(s, cmd, depth_cm, now) ==
  LET s1 == state_machine_set_outputs(s, 50, FALSE)
  IN IF cmd = "CMD_SURFACE"
     THEN state_machine_set_outputs(
            [s1 EXCEPT !.state = "STATE_SURFACING", !.state_start_ms = now],
            -100, FALSE)
     ELSE IF depth_cm >= DIVE_COMPLETE_CM
     THEN state_machine_set_outputs(
            [s1 EXCEPT !.state = "STATE_SUBMERGED_MANUAL",
                       !.state_start_ms = now], 0, FALSE)
     ELSE s1

state_machine_handle_submerged_manual(s, cmd, depth_cm, now) ==
  LET s1 == state_machine_set_outputs(s, 0, FALSE)
  IN IF cmd = "CMD_SURFACE"
     THEN state_machine_set_outputs(
            [s1 EXCEPT !.state = "STATE_SURFACING", !.state_start_ms = now],
            -100, FALSE)
     ELSE IF cmd = "CMD_DEPTH_HOLD"
     THEN LET s2 == state_machine_set_target_depth(
                      [s1 EXCEPT !.state = "STATE_SUBMERGED_DEPTH_HOLD"],
                      depth_cm)
          IN IF s2.fail THEN s2 ELSE state_machine_set_outputs(s2, 0, TRUE)
     ELSE s1

\* a depth-hold handler that keeps depth hold engaged while surfacing
state_machine_handle_submerged_depth_hold_surfacing_held(s, cmd, now) ==
  IF cmd = "CMD_SURFACE"
  THEN state_machine_set_outputs(
         [s EXCEPT !.state = "STATE_SURFACING", !.state_start_ms = now],
         -100, TRUE)
  ELSE IF cmd = "CMD_MANUAL"
  THEN state_machine_set_outputs(
         [s EXCEPT !.state = "STATE_SUBMERGED_MANUAL", !.state_start_ms = now],
         0, FALSE)
  ELSE state_machine_set_outputs(s, 0, TRUE)

state_machine_handle_submerged_depth_hold(s, cmd, now) ==
  LET s1 == state_machine_set_outputs(s, 0, TRUE)
  IN IF cmd = "CMD_SURFACE"
     THEN state_machine_set_outputs(
            [s1 EXCEPT !.state = "STATE_SURFACING", !.state_start_ms = now],
            -100, FALSE)
     ELSE IF cmd = "CMD_MANUAL"
     THEN state_machine_set_outputs(
            [s1 EXCEPT !.state = "STATE_SUBMERGED_MANUAL",
                       !.state_start_ms = now], 0, FALSE)
     ELSE s1

\* a Surfacing handler that starts over in Init at the surface
state_machine_handle_surfacing_restarting(s, depth_cm, now) ==
  IF depth_cm <= SURFACE_DEPTH_CM
  THEN state_machine_set_outputs(
         [s EXCEPT !.state = "STATE_INIT", !.state_start_ms = now], -100, FALSE)
  ELSE state_machine_set_outputs(s, -100, FALSE)

state_machine_handle_surfacing(s, depth_cm, now) ==
  LET s1 == state_machine_set_outputs(s, -100, FALSE)
  IN IF depth_cm <= SURFACE_DEPTH_CM
     THEN [s1 EXCEPT !.state = "STATE_SURFACE", !.state_start_ms = now]
     ELSE s1

\* the struct after state_machine_init(&sm)
state_machine_init ==
  [ state |-> "STATE_INIT", target_depth_cm |-> 0, state_start_ms |-> 0,
    ballast_target_level |-> -100, depth_hold_enabled |-> FALSE ]

\* the switch of state_machine_process
state_machine_switch(s, cmd, depth_cm, now) ==
  CASE s.state = "STATE_INIT" -> state_machine_handle_init(s, now)
    [] s.state = "STATE_SURFACE" ->
         state_machine_handle_surface(s, cmd, now)
    [] s.state = "STATE_DIVING" ->
         state_machine_handle_diving(s, cmd, depth_cm, now)
    [] s.state = "STATE_SUBMERGED_MANUAL" ->
         state_machine_handle_submerged_manual(s, cmd, depth_cm, now)
    [] s.state = "STATE_SUBMERGED_DEPTH_HOLD" ->
         state_machine_handle_submerged_depth_hold(s, cmd, now)
    [] s.state = "STATE_SURFACING" ->
         state_machine_handle_surfacing(s, depth_cm, now)
    [] s.state = "STATE_EMERGENCY" -> s
    [] OTHER ->
         state_machine_set_outputs(
           [s EXCEPT !.state = "STATE_SURFACE", !.state_start_ms = now],
           -100, FALSE)

\* a state machine that leaves Emergency on the next call
state_machine_process_leaving_emergency(s, cmd, depth_cm, now) ==
  IF cmd = "CMD_EMERGENCY" THEN state_machine_trigger_emergency(s)
  ELSE IF s.state = "STATE_EMERGENCY" THEN state_machine_handle_init(s, now)
  ELSE state_machine_switch(s, cmd, depth_cm, now)

state_machine_process(s, cmd, depth_cm, now) ==
  IF cmd = "CMD_EMERGENCY" THEN state_machine_trigger_emergency(s)
  ELSE IF s.state = "STATE_EMERGENCY" THEN s
  ELSE state_machine_switch(s, cmd, depth_cm, now)

(************************ log.c on a caller's EventLog_t *******************)
\* log.c takes the log as its first argument; the operators below are its
\* functions on that struct (log_init, log_event and log_count above are
\* taken by the memory of the two cores), with whole EventLogEntry_t entries.
EventLogEntry(timestamp_ms, code, param1, param2) ==
  [timestamp_ms |-> timestamp_ms, code |-> code,
   param1 |-> param1, param2 |-> param2]

\* log_init(&log)
EventLog_init ==
  [ entries |-> [i \in 0..(EVENT_LOG_SIZE - 1) |->
                   EventLogEntry(0, "EVT_NONE", 0, 0)],
    head |-> 0, count |-> 0 ]

\* a log_event that counts every append
EventLog_event_counting_all(log, timestamp_ms, code, param1, param2) ==
  [log EXCEPT !.entries[log.head] =
                 EventLogEntry(timestamp_ms, code, param1, param2),
              !.head = next_index(log.head),
              !.count = @ + 1]

\* log_event(&log, timestamp_ms, code, param1, param2)
EventLog_event(log, timestamp_ms, code, param1, param2) ==
  [log EXCEPT !.entries[log.head] =
                 EventLogEntry(timestamp_ms, code, param1, param2),
              !.head = next_index(log.head),
              !.count = IF @ < EVENT_LOG_SIZE THEN @ + 1 ELSE @]

\* a log_get_newest that takes the slot at head for the newest entry
EventLog_get_newest_from_head(log, index_from_newest, entry_out) ==
  IF index_from_newest >= log.count
  THEN [found |-> FALSE, entry |-> entry_out]
  ELSE [found |-> TRUE,
        entry |-> log.entries[wrap_sub(log.head, index_from_newest)]]

\* log_get_newest(&log, index_from_newest, &entry_out): the return value and
\* entry_out after the call
EventLog_get_newest(log, index_from_newest, entry_out) ==
  IF index_from_newest >= log.count
  THEN [found |-> FALSE, entry |-> entry_out]
  ELSE LET newest_idx == wrap_sub(log.head, 1)
           idx == wrap_sub(newest_idx, index_from_newest)
       IN [found |-> TRUE, entry |-> log.entries[idx]]

\* log_count(&log)
EventLog_count(log) == log.count

(***************************** ballast_ctrl.c ******************************)
\* BallastState_t
BallastStateValues == {"BALLAST_STATE_IDLE", "BALLAST_STATE_FILLING",
                       "BALLAST_STATE_DRAINING", "BALLAST_STATE_HOLDING"}

clamp_i8(v, lo, hi) == IF v < lo THEN lo ELSE IF v > hi THEN hi ELSE v

clamp_dt_ms(dt_ms, max_dt_ms) == IF dt_ms > max_dt_ms THEN max_dt_ms ELSE dt_ms

\* clamp_dt_ms(now_ms - last_update_ms, fill_time_ms) in uint32_t arithmetic:
\* a time stamp behind the last one wraps to an interval near 2^32, which
\* the clamp cuts to fill_time_ms
clamped_elapsed_ms(now, last, fill_time_ms) ==
  IF now >= last THEN clamp_dt_ms(now - last, fill_time_ms) ELSE fill_time_ms

\* ballast_delta_x1000 of an interval already clamped to fill_time_ms; the
\* quotient is at most 200000, below INT32_MAX
ballast_delta_x1000(dt_clamped, fill_time_ms) ==
  IF fill_time_ms = 0 THEN 0
  ELSE (dt_clamped * (BALLAST_FULL_RANGE_UNITS * BALLAST_SCALE_X1000))
         \div fill_time_ms

\* an integration that does not limit the fixed-point estimate
ballast_update_level_unclamped(c, direction, now) ==
  IF c.last_update_ms = 0 THEN [c EXCEPT !.last_update_ms = now]
  ELSE LET delta == ballast_delta_x1000(
                      clamped_elapsed_ms(now, c.last_update_ms, c.fill_time_ms),
                      c.fill_time_ms)
           x == c.current_level_x1000 + direction * delta
       IN [c EXCEPT !.last_update_ms = now,
                    !.current_level_x1000 = x,
                    !.current_level =
                       clamp_i8(CDiv(x, BALLAST_SCALE_X1000), -100, 100)]

ballast_update_level(c, direction, now) ==
  IF c.last_update_ms = 0 THEN [c EXCEPT !.last_update_ms = now]
  ELSE LET delta == ballast_delta_x1000(
                      clamped_elapsed_ms(now, c.last_update_ms, c.fill_time_ms),
                      c.fill_time_ms)
           x == clamp_i8(c.current_level_x1000 + direction * delta,
                         -100 * BALLAST_SCALE_X1000, 100 * BALLAST_SCALE_X1000)
       IN [c EXCEPT !.last_update_ms = now,
                    !.current_level_x1000 = x,
                    !.current_level =
                       clamp_i8(CDiv(x, BALLAST_SCALE_X1000), -100, 100)]

\* the struct after ballast_ctrl_init(&ctrl)
ballast_ctrl_init ==
  [ state |-> "BALLAST_STATE_IDLE", target_level |-> 0, current_level |-> 0,
    current_level_x1000 |-> 0, last_update_ms |-> 0,
    fill_time_ms |-> BALLAST_FILL_TIME_MS ]

\* a set_target that moves the level estimate onto a target inside the
\* tolerance
ballast_ctrl_set_target_moving_estimate(c, level) ==
  IF ABS(level - c.current_level) <= BALLAST_LEVEL_TOLERANCE
  THEN [c EXCEPT !.target_level = level, !.current_level = level]
  ELSE [c EXCEPT !.target_level = level]

ballast_ctrl_set_target(c, level) ==
  [c EXCEPT !.target_level = clamp_i8(level, -100, 100)]

\* the level estimate set on the target, and Holding
ballast_hold_at_target(c) ==
  [c EXCEPT !.current_level = c.target_level,
            !.current_level_x1000 = c.target_level * BALLAST_SCALE_X1000,
            !.state = "BALLAST_STATE_HOLDING"]

\* an Idle case that leaves already at the tolerance
ballast_update_idle_leaving_at_tolerance(c) ==
  LET error == c.target_level - c.current_level
  IN IF ABS(error) >= BALLAST_LEVEL_TOLERANCE
     THEN IF error > 0
          THEN [ctrl |-> [c EXCEPT !.state = "BALLAST_STATE_FILLING",
                                   !.last_update_ms = 0],
                pump |-> 100, valve |-> FALSE]
          ELSE [ctrl |-> [c EXCEPT !.state = "BALLAST_STATE_DRAINING",
                                   !.last_update_ms = 0],
                pump |-> -100, valve |-> TRUE]
     ELSE [ctrl |-> c, pump |-> 0, valve |-> FALSE]

\* case BALLAST_STATE_IDLE of ballast_ctrl_update
ballast_update_idle(c) ==
  LET error == c.target_level - c.current_level
  IN IF ABS(error) > BALLAST_LEVEL_TOLERANCE
     THEN IF error > 0
          THEN [ctrl |-> [c EXCEPT !.state = "BALLAST_STATE_FILLING",
                                   !.last_update_ms = 0],
                pump |-> 100, valve |-> FALSE]
          ELSE [ctrl |-> [c EXCEPT !.state = "BALLAST_STATE_DRAINING",
                                   !.last_update_ms = 0],
                pump |-> -100, valve |-> TRUE]
     ELSE [ctrl |-> c, pump |-> 0, valve |-> FALSE]

\* a Filling case that stops only past the target
ballast_update_filling_past_target(c, now) ==
  LET c1 == ballast_update_level(c, 1, now)
  IN [ctrl |-> IF c1.current_level > c1.target_level
               THEN ballast_hold_at_target(c1) ELSE c1,
      pump |-> 100, valve |-> FALSE]

\* case BALLAST_STATE_FILLING of ballast_ctrl_update
ballast_update_filling(c, now) ==
  LET c1 == ballast_update_level(c, 1, now)
  IN [ctrl |-> IF c1.current_level >= c1.target_level
               THEN ballast_hold_at_target(c1) ELSE c1,
      pump |-> 100, valve |-> FALSE]

\* a Draining case that reports the valve closed
ballast_update_draining_valve_closed(c, now) ==
  LET c1 == ballast_update_level(c, -1, now)
  IN [ctrl |-> IF c1.current_level <= c1.target_level
               THEN ballast_hold_at_target(c1) ELSE c1,
      pump |-> -100, valve |-> FALSE]

\* case BALLAST_STATE_DRAINING of ballast_ctrl_update
ballast_update_draining(c, now) ==
  LET c1 == ballast_update_level(c, -1, now)
  IN [ctrl |-> IF c1.current_level <= c1.target_level
               THEN ballast_hold_at_target(c1) ELSE c1,
      pump |-> -100, valve |-> TRUE]

\* a Holding case that reverts already at twice the tolerance
ballast_update_holding_reverting_early(c) ==
  LET error == c.target_level - c.current_level
  IN [ctrl |-> IF ABS(error) >= BALLAST_LEVEL_TOLERANCE * 2
               THEN [c EXCEPT !.state = "BALLAST_STATE_IDLE"] ELSE c,
      pump |-> 0, valve |-> FALSE]

\* case BALLAST_STATE_HOLDING of ballast_ctrl_update
ballast_update_holding(c) ==
  LET error == c.target_level - c.current_level
  IN [ctrl |-> IF ABS(error) > BALLAST_LEVEL_TOLERANCE * 2
               THEN [c EXCEPT !.state = "BALLAST_STATE_IDLE"] ELSE c,
      pump |-> 0, valve |-> FALSE]

\* the controller and the two outputs after ballast_ctrl_update
ballast_ctrl_update(c, now) ==
  CASE c.state = "BALLAST_STATE_IDLE" -> ballast_update_idle(c)
    [] c.state = "BALLAST_STATE_FILLING" -> ballast_update_filling(c, now)
    [] c.state = "BALLAST_STATE_DRAINING" -> ballast_update_draining(c, now)
    [] c.state = "BALLAST_STATE_HOLDING" -> ballast_update_holding(c)
    [] OTHER -> [ctrl |-> [c EXCEPT !.state = "BALLAST_STATE_IDLE"],
                 pump |-> 0, valve |-> FALSE]

(********************************** pid.c **********************************)
\* A float is modelled by the integer number of fortieths it holds: every
\* gain, limit, set point, measurement and time step the model supplies is a
\* multiple of 1/40 whose sums, products and quotients are again multiples of
\* 1/40, so the arithmetic below is the exact arithmetic of the C expressions.
FLOAT_ONE == 40

\* (float)n
F(n) == n * FLOAT_ONE

\* a * b and a / b on floats
fmul(a, b) == CDiv(a * b, FLOAT_ONE)
fdiv(a, b) == CDiv(a * FLOAT_ONE, b)

\* The PidController_t p the caller owns, as a record the functions of pid.c
\* pass along, with the build and the failed assertion; "output" is the
\* value pid_update returns.
PidMem(p, nd, failed) ==
  [ kp |-> p.kp, ki |-> p.ki, kd |-> p.kd,
    integral |-> p.integral, prev_error |-> p.prev_error,
    prev_measurement |-> p.prev_measurement,
    integral_limit |-> p.integral_limit,
    output_min |-> p.output_min, output_max |-> p.output_max,
    use_derivative_on_measurement |-> p.use_derivative_on_measurement,
    ndebug |-> nd, fail |-> failed, output |-> 0 ]

\* the PidController_t of such a record
PidStruct(f) ==
  [ kp |-> f.kp, ki |-> f.ki, kd |-> f.kd,
    integral |-> f.integral, prev_error |-> f.prev_error,
    prev_measurement |-> f.prev_measurement,
    integral_limit |-> f.integral_limit,
    output_min |-> f.output_min, output_max |-> f.output_max,
    use_derivative_on_measurement |-> f.use_derivative_on_measurement ]

pid_init(kp, ki, kd) ==
  [ kp |-> kp, ki |-> ki, kd |-> kd,
    integral |-> 0, prev_error |-> 0, prev_measurement |-> 0,
    integral_limit |-> F(1000),
    output_min |-> F(-100), output_max |-> F(100),
    use_derivative_on_measurement |-> TRUE ]

pid_set_limits(f, out_min, out_max, int_limit) ==
  LET a == P10_ASSERT_BUILD(f, out_min < out_max)
  IN IF a.fail THEN a
     ELSE IF out_min >= out_max THEN a
     ELSE [a EXCEPT !.output_min = out_min, !.output_max = out_max,
                    !.integral_limit = int_limit]

\* an anti-windup clamp that forgets the lower side
pid_clamp_integral_upper_only(integral, integral_limit) ==
  IF integral > integral_limit THEN integral_limit ELSE integral

\* the anti-windup clamp of pid_update
pid_clamp_integral(integral, integral_limit) ==
  IF integral > integral_limit THEN integral_limit
  ELSE IF integral < -integral_limit THEN -integral_limit
  ELSE integral

pid_update(f, setpoint, measurement, dt) ==
  LET a == P10_ASSERT_BUILD(f, dt > 0)
  IN IF a.fail THEN a
     ELSE IF dt <= 0 THEN [a EXCEPT !.output = 0]
     ELSE
       LET error == setpoint - measurement
           p_term == fmul(a.kp, error)
           integral == pid_clamp_integral(a.integral + fmul(error, dt),
                                          a.integral_limit)
           i_term == fmul(a.ki, integral)
           d_term == IF a.use_derivative_on_measurement
                     THEN fmul(-a.kd, fdiv(measurement - a.prev_measurement, dt))
                     ELSE fmul(a.kd, fdiv(error - a.prev_error, dt))
           output == p_term + i_term + d_term
       IN [a EXCEPT !.integral = integral,
                    !.prev_error = error,
                    !.prev_measurement = measurement,
                    !.output = IF output > a.output_max THEN a.output_max
                               ELSE IF output < a.output_min THEN a.output_min
                               ELSE output]

pid_reset(f) ==
  [f EXCEPT !.integral = 0, !.prev_error = 0, !.prev_measurement = 0]

(******************************* depth_ctrl.c *******************************)
\* config.h: the gains of the two loops (2.0, 0.1, 0.5 and 1.5, 0.05, 0.3)
PID_DEPTH_KP == F(2)
PID_DEPTH_KI == F(1) \div 10
PID_DEPTH_KD == F(1) \div 2
PID_PITCH_KP == F(3) \div 2
PID_PITCH_KI == F(1) \div 20
PID_PITCH_KD == F(3) \div 10

\* The DepthController_t (or PitchController_t) c the caller owns, as a
\* record the functions pass along, with the build and the failed assertion;
\* "cmd" is the value the update returns.
AxisMem(c, nd, failed) ==
  [ pid |-> c.pid, target |-> c.target, enabled |-> c.enabled,
    ndebug |-> nd, fail |-> failed, cmd |-> 0 ]

\* the controller structure of such a record ("target" is target_depth_cm
\* or target_pitch_x10)
AxisStruct(a) == [pid |-> a.pid, target |-> a.target, enabled |-> a.enabled]

\* pid_update on the PID controller embedded in the controller, and the
\* (int8_t) conversion of its result, which truncates toward zero
axis_pid_update(a, current, dt) ==
  LET r == pid_update(PidMem(a.pid, a.ndebug, a.fail), F(a.target), F(current), dt)
  IN IF r.fail THEN [a EXCEPT !.fail = TRUE]
     ELSE [a EXCEPT !.pid = PidStruct(r), !.cmd = CDiv(r.output, FLOAT_ONE)]

\* pid_reset on the PID controller embedded in the controller
axis_pid_reset(a) ==
  [a EXCEPT !.pid = PidStruct(pid_reset(PidMem(a.pid, a.ndebug, a.fail)))]

depth_ctrl_init ==
  [ pid |-> PidStruct(pid_set_limits(
              PidMem(pid_init(PID_DEPTH_KP, PID_DEPTH_KI, PID_DEPTH_KD),
                     FALSE, FALSE),
              F(-100), F(100), F(500))),
    target |-> 0, enabled |-> FALSE ]

\* a depth_ctrl_set_target that stores whatever it is given
depth_ctrl_set_target_unchecked(a, depth_cm) ==
  [a EXCEPT !.target = depth_cm]

depth_ctrl_set_target(a, depth_cm) ==
  LET b == P10_ASSERT_BUILD(a, depth_cm >= 0 /\ depth_cm <= MAX_DEPTH_CM)
  IN IF b.fail THEN b
     ELSE IF depth_cm < 0 \/ depth_cm > MAX_DEPTH_CM THEN b
     ELSE [b EXCEPT !.target = depth_cm]

\* a depth_ctrl_enable that resets the PID controller on every enable
depth_ctrl_enable_resetting_always(a, enable) ==
  [(IF enable THEN axis_pid_reset(a) ELSE a) EXCEPT !.enabled = enable]

depth_ctrl_enable(a, enable) ==
  [(IF enable /\ ~a.enabled THEN axis_pid_reset(a) ELSE a)
     EXCEPT !.enabled = enable]

depth_ctrl_update(a, current_depth_cm, dt) ==
  IF ~a.enabled THEN [a EXCEPT !.cmd = 0]
  ELSE axis_pid_update(a, current_depth_cm, dt)

(******************************* pitch_ctrl.c *******************************)
pitch_ctrl_limit_x10 == MAX_PITCH_DEG * 10

pitch_ctrl_init ==
  [ pid |-> PidStruct(pid_set_limits(
              PidMem(pid_init(PID_PITCH_KP, PID_PITCH_KI, PID_PITCH_KD),
                     FALSE, FALSE),
              F(-100), F(100), F(200))),
    target |-> 0, enabled |-> TRUE ]

pitch_ctrl_set_target(a, pitch_x10) ==
  LET limit_x10 == pitch_ctrl_limit_x10
  IN IF pitch_x10 < -limit_x10 \/ pitch_x10 > limit_x10 THEN a
     ELSE [a EXCEPT !.target = pitch_x10]

pitch_ctrl_enable(a, enable) ==
  [(IF enable /\ ~a.enabled THEN axis_pid_reset(a) ELSE a)
     EXCEPT !.enabled = enable]

pitch_ctrl_update(a, current_pitch_x10, dt) ==
  IF ~a.enabled THEN [a EXCEPT !.cmd = 0]
  ELSE axis_pid_update(a, current_pitch_x10, dt)

(********************************* Init ************************************)
\* The statics as the C initializers leave them, at the moment main() has
\* launched Core 1 (after its start-up delay) and calls core0_main.
PowerOn ==
  /\ g_faults = {} /\ g_emergency = FALSE /\ g_last_rc_valid_ms = 0
  /\ g_current_depth_cm = 0 /\ g_current_pitch_x10 = 0
  /\ s_last_heartbeat = 0 /\ s_stall_count = 0 /\ g_core1_heartbeat = 0
  /\ emergency_active = FALSE /\ emergency_reason = "EVT_NONE"
  /\ valve_initialized = FALSE /\ valve_is_open = FALSE
  /\ pump_initialized = FALSE /\ pump_speed = 0
  /\ servo_initialized = FALSE /\ servo_position = [c \in ServoChannels |-> 0]
  /\ battery_initialized = FALSE /\ leak_initialized = FALSE /\ s_leak_flag = FALSE
  /\ log_entries = [i \in 0..(EVENT_LOG_SIZE - 1) |-> "EVT_NONE"]
  /\ log_head = 0 /\ log_count = 0
  /\ clock_ms = BOOT_DELAY_MS /\ leak_pin \in BOOLEAN /\ disturbances = 0
  /\ watchdog_fed = FALSE
  /\ pc0 = "init" /\ pc1 = "boot" /\ now_ms = 0
  /\ trigger_calls = 0 /\ hb_advanced = FALSE

\* the latest call before any call is made: the constructor ("from" is the
\* state the call found)
SmConstructed ==
  [op |-> "state_machine_init", cmd |-> "CMD_NONE", depth_cm |-> 0,
   from |-> "STATE_INIT"]

\* a state machine constructed by state_machine_init and not yet called, in
\* the build with assertions
StateMachineIdle ==
  /\ sm = state_machine_init /\ ndebug = FALSE /\ sm_now_ms = 0
  /\ sm_failed = FALSE /\ sm_call = SmConstructed

\* a ballast controller constructed by ballast_ctrl_init and not yet called
BallastIdle ==
  /\ ctrl = ballast_ctrl_init /\ ballast_now_ms = 0
  /\ pump_speed_out = 0 /\ valve_open_out = FALSE
  /\ ballast_call = "ballast_ctrl_init" /\ ballast_updates = 0
  /\ start_error = -1

\* a log cleared by log_init and not yet written, and no entry read
LogIdle ==
  /\ event_log = EventLog_init
  /\ got = [index |-> 0, found |-> FALSE, entry |-> EventLogEntry(0, "EVT_NONE", 0, 0)]
  /\ appended = <<>> /\ stamps = "rising" /\ log_call = "log_init"

\* the latest call before any call is made on a PID controller
PidConstructed ==
  [op |-> "pid_init", setpoint |-> 0, measurement |-> 0, dt |-> 0]

\* a PID controller constructed by pid_init and not yet called
PidIdle ==
  /\ pid = pid_init(F(1), 0, 0) /\ pid_output = 0 /\ pid_failed = FALSE
  /\ pid_call = PidConstructed

\* the latest call before any call is made on the two controllers
AxisConstructed ==
  [op |-> "init", arg |-> 0, was_enabled |-> FALSE, was_settled |-> TRUE]

\* a depth and a pitch controller constructed by depth_ctrl_init and
\* pitch_ctrl_init and not yet called
AxisIdle ==
  /\ depth_ctrl = depth_ctrl_init /\ pitch_ctrl = pitch_ctrl_init
  /\ ballast_cmd = 0 /\ pitch_cmd = 0 /\ axis_failed = FALSE
  /\ axis_call = AxisConstructed

\* handshake_wait_for_core1 not yet called, the FIFO empty
HandshakeIdle ==
  /\ fifo = <<>> /\ hs_pc = "call" /\ hs_i = 0 /\ hs_result = "none"
  /\ hs_received = <<>> /\ hs_pushed = 0

Init ==
  /\ PowerOn /\ StateMachineIdle /\ BallastIdle /\ LogIdle /\ PidIdle /\ AxisIdle
  /\ HandshakeIdle

\* 1 for an abnormal input, 0 for a normal one
Abnormal(b) == IF b THEN 1 ELSE 0

(***************************** Core 0 actions ******************************)
\* core0_main before the loop: safety_monitor_init(); log_init()
Core0Init ==
  /\ pc0 = "init"
  /\ Commit(log_init(safety_monitor_init(Mem)))
  /\ pc0' = "run"
  /\ UNCHANGED <<clock_ms, leak_pin, disturbances, pc1, now_ms, hb_advanced, libvars>>

\* safety_monitor_run: the clock sample and the watchdog feed
SafetyRunBegin ==
  /\ pc0 = "run"
  /\ now_ms' = clock_ms
  /\ Commit(watchdog_update(Mem))
  /\ pc0' = "checks"
  /\ UNCHANGED <<clock_ms, leak_pin, disturbances, pc1, hb_advanced, libvars>>

\* safety_monitor_run: the four checks, up to the heartbeat comparison
safety_monitor_checks(m, now, mv, pin) ==
  check_core1_health(check_sensors(check_battery(check_rc_signal(m, now), mv), pin))

SafetyChecks ==
  /\ pc0 = "checks"
  /\ (g_core1_heartbeat = s_last_heartbeat) => (s_stall_count < MaxStallCount)
  /\ \E mv \in BatteryReadings :
       /\ disturbances + Abnormal(mv < MIN_BATTERY_MV) <= MaxDisturbances
       /\ LET m == safety_monitor_checks(Mem, now_ms, mv, leak_pin)
          IN /\ Commit(m)
             /\ disturbances' = disturbances + Abnormal(mv < MIN_BATTERY_MV)
             /\ pc0' = (IF m.fail THEN "assert" ELSE "store")
             /\ hb_advanced' = (IF m.fail THEN hb_advanced ELSE FALSE)
  /\ now_ms' = 0
  /\ UNCHANGED <<clock_ms, leak_pin, pc1, libvars>>

\* safety_monitor_run: the heartbeat store closing check_core1_health, then
\* step 3; the return ends the tick
SafetyStore ==
  /\ pc0 = "store"
  /\ LET m == escalate(store_last_heartbeat(Mem))
     IN /\ Commit(m)
        /\ pc0' = (IF m.fail THEN "assert" ELSE "blow")
  /\ UNCHANGED <<clock_ms, leak_pin, disturbances, pc1, now_ms, hb_advanced, libvars>>

\* core0_main: if (is_emergency_active()) emergency_blow_run(); end of tick
SafetyBlow ==
  /\ pc0 = "blow"
  /\ LET m == IF is_emergency_active(Mem) THEN emergency_blow_run(Mem) ELSE Mem
     IN /\ Commit([m EXCEPT !.watchdog_fed = FALSE])
        /\ pc0' = (IF m.fail THEN "assert" ELSE "run")
  /\ UNCHANGED <<clock_ms, leak_pin, disturbances, pc1, now_ms, hb_advanced, libvars>>

\* a P10_ASSERT failed on Core 0: p10_assert_fail, which halts the core
Core0AssertFail ==
  /\ pc0 = "assert"
  /\ LET m == p10_assert_fail(Mem)
     IN /\ Commit(m)
        /\ pc0' = (IF m.fail THEN "nested" ELSE "halt")
  /\ UNCHANGED <<clock_ms, leak_pin, disturbances, pc1, now_ms, hb_advanced, libvars>>

(***************************** Core 1 actions ******************************)
\* core1_main before the loop
Core1Boot ==
  /\ pc1 = "boot"
  /\ Commit(log_event(init_hardware(Mem), "EVT_INIT_COMPLETE"))
  /\ pc1' = "top"
  /\ UNCHANGED <<clock_ms, leak_pin, disturbances, pc0, now_ms, hb_advanced, libvars>>

\* the heartbeat increment opening every iteration of the control loop
core1_heartbeat(m) ==
  [m EXCEPT !.g_core1_heartbeat = IF InUint32(@ + 1) THEN @ + 1 ELSE 0]

\* top of the loop: heartbeat, then
\* if (is_emergency_active()) { sleep_ms(100); continue; }
Core1Top ==
  /\ pc1 = "top"
  /\ g_core1_heartbeat < MaxHeartbeat
  /\ Commit(core1_heartbeat(Mem))
  /\ hb_advanced' = TRUE
  /\ pc1' = (IF is_emergency_active(Mem) THEN "top" ELSE "sensors")
  /\ UNCHANGED <<clock_ms, leak_pin, disturbances, pc0, now_ms, libvars>>

\* read_sensors: the frame is stamped with the clock when it is read
read_sensors(m, rc_valid, timestamp_ms, depth_cm, pitch_x10) ==
  LET m1 == IF rc_valid THEN safety_update_rc_time(m, timestamp_ms) ELSE m
  IN safety_update_pitch(safety_update_depth(m1, depth_cm), pitch_x10)

Core1ReadSensors ==
  /\ pc1 = "sensors"
  /\ \E rc_valid \in BOOLEAN, d \in DepthReadings, p \in PitchReadings :
       LET n == Abnormal(d > MAX_DEPTH_CM) + Abnormal(p # 0)
       IN /\ disturbances + n <= MaxDisturbances
          /\ disturbances' = disturbances + n
          /\ Commit(read_sensors(Mem, rc_valid, clock_ms, d, p))
  /\ pc1' = "control"
  /\ UNCHANGED <<clock_ms, leak_pin, pc0, now_ms, hb_advanced, libvars>>

\* ballast_ctrl_update(bc, now_ms) as main.c calls it: the pump and valve
\* commands of the ballast state the controller is in
ballast_outputs(m, state) ==
  CASE state = "FILLING"  -> pump_set_speed(valve_close(m), 100)
    [] state = "DRAINING" -> pump_set_speed(valve_open(m), -100)
    [] OTHER              -> valve_close(pump_stop(m))

\* run_control_loop: the plane commands, the ballast update, the rudder
run_control_loop(m, plane_cmd, ballast_state, rudder_cmd) ==
  LET m1 == servo_set_position(m, "SERVO_BOWPLANE", plane_cmd)
      m2 == servo_set_position(m1, "SERVO_STERNPLANE", plane_cmd)
      m3 == ballast_outputs(m2, ballast_state)
  IN servo_set_position(m3, "SERVO_RUDDER", rudder_cmd)

Core1Control ==
  /\ pc1 = "control"
  /\ \E cmd \in ControlCommands, st \in BallastStates :
       Commit(run_control_loop(Mem, cmd, st, cmd))
  /\ pc1' = "top"
  /\ UNCHANGED <<clock_ms, leak_pin, disturbances, pc0, now_ms, hb_advanced, libvars>>

(****************************** environment ********************************)
\* the millisecond timer.  Only safety_monitor_run (at "run") and
\* rc_input_read (at "sensors") read it, so an advance is taken when one of
\* them is the next to read.
AdvanceClock ==
  /\ pc0 = "run" \/ pc1 = "sensors"
  /\ disturbances < MaxDisturbances
  /\ disturbances' = disturbances + 1
  /\ \E d \in TimeSteps : clock_ms' = clock_ms + d
  /\ UNCHANGED <<memvars, leak_pin, pc0, pc1, now_ms, hb_advanced, libvars>>

\* the leak probe; leak_isr latches a rising edge once leak_init enabled it
leak_isr(m) == [m EXCEPT !.s_leak_flag = TRUE]

\* The level is read by check_sensors (at "checks") and the edge is latched
\* from leak_init on (after "boot"), so a change is taken before either.
LeakPinChange ==
  /\ pc0 = "checks" \/ pc1 = "boot"
  /\ disturbances < MaxDisturbances
  /\ disturbances' = disturbances + 1
  /\ leak_pin' = ~leak_pin
  /\ Commit(IF ~leak_pin /\ leak_initialized THEN leak_isr(Mem) ELSE Mem)
  /\ UNCHANGED <<clock_ms, pc0, pc1, now_ms, hb_advanced, libvars>>

Next ==
  \/ Core0Init \/ SafetyRunBegin \/ SafetyChecks \/ SafetyStore \/ SafetyBlow
  \/ Core0AssertFail
  \/ Core1Boot \/ Core1Top \/ Core1ReadSensors \/ Core1Control
  \/ AdvanceClock \/ LeakPinChange

Spec == Init /\ [][Next]_vars

(******************************* properties ********************************)
\* the actuator commands of the emergency blow: valve open, pump full
\* reverse, both planes at maximum lift
BlowCommanded(valve, pump, servo) ==
  /\ valve
  /\ pump = -100
  /\ servo["SERVO_BOWPLANE"] = 100
  /\ servo["SERVO_STERNPLANE"] = 100

\* the four flags of the set-only sensor and battery checks
SetOnlyFlags == {"leak", "depth_exceeded", "pitch_exceeded", "low_battery"}

\* the flags the specification calls critical
CriticalFlags == {"signal_lost", "low_battery", "leak", "depth_exceeded",
                  "pitch_exceeded", "core1_stall"}

\* C1: once is_emergency_active() is true it is true in every later state:
\* no step of either core resets the emergency flag.
C1_EmergencyLatched == [][emergency_active => emergency_active']_vars

\* the emergency is still active after every fault flag that caused it has
\* cleared again
C1_Witness ==
  /\ emergency_active /\ g_faults = {} /\ trigger_calls > 0 /\ pc0 = "run"

\* C2: when safety_monitor_run has returned and a critical fault flag is
\* set, the emergency is active.
C2_CriticalFaultTriggers ==
  (pc0 = "blow" /\ g_faults \cap CriticalFlags # {}) => is_emergency_active(Mem)

C2_Witness ==
  /\ pc0 = "blow" /\ "low_battery" \in g_faults
  /\ emergency_active /\ emergency_reason = "EVT_EMERGENCY_BLOW"

C4_TriggeredOnce == trigger_calls <= 1

\* C5: an iteration of the safety loop that ends with the emergency active
\* leaves the valve open, the pump at -100, the planes at +100 and the
\* rudder neutral, and its maintain call appends nothing to the log; with no
\* emergency the call commands nothing.
C5_MaintainReissuesTrigger ==
  [][(pc0 = "blow" /\ pc0' = "run") =>
       /\ <<log_entries, log_head, log_count>>' = <<log_entries, log_head, log_count>>
       /\ IF emergency_active
          THEN /\ BlowCommanded(valve_is_open', pump_speed', servo_position')
               /\ servo_position'["SERVO_RUDDER"] = 0
          ELSE <<valve_is_open, pump_speed, servo_position>>'
                 = <<valve_is_open, pump_speed, servo_position>>]_vars

\* C6: a safety tick that finds the heartbeat unchanged since the previous
\* tick's comparison adds one to the stall counter, and whenever the stall
\* counter is above CORE1_STALL_THRESHOLD core1_stall is set and the
\* emergency is active: a heartbeat frozen over more than the threshold of
\* consecutive ticks has raised both by the last of them.
C6_FrozenHeartbeatEscalates ==
  [][/\ (pc0 = "checks" /\ pc0' = "store" /\ ~hb_advanced)
          => s_stall_count' = s_stall_count + 1
     /\ s_stall_count' > CORE1_STALL_THRESHOLD
          => ("core1_stall" \in g_faults' /\ emergency_active')]_vars

\* the tick that takes the stall counter past the threshold has raised
\* core1_stall and triggered with it as the reason
C6_Witness ==
  /\ s_stall_count = CORE1_STALL_THRESHOLD + 1 /\ pc0 = "store"
  /\ "core1_stall" \in g_faults /\ emergency_reason = "EVT_CORE1_STALL"

\* C7: a safety tick feeds the watchdog only when no fault flag is set.
C7_FeedOnlyWithoutFaults ==
  [][(~watchdog_fed /\ watchdog_fed') => g_faults = {}]_vars

C10_SignalLostIffTimedOut ==
  [][(pc0 = "checks" /\ pc0' = "store") =>
       (("signal_lost" \in g_faults')
          <=> (now_ms - g_last_rc_valid_ms > SIGNAL_TIMEOUT_MS))]_vars


\* C28: p10_assert_fail triggers the emergency procedure and ends, within
\* its bounded wait, halted or reset with the emergency outputs commanded; it
\* never goes back to the loop whose assertion failed.
C28_AssertFailTriggersThenHalts ==
  [][ /\ pc0 = "assert" =>
           /\ pc0' = "halt"
           /\ emergency_active' /\ valve_is_open' /\ pump_speed' = -100
      /\ pc0 \in {"halt", "nested"} => pc0' = pc0 ]_vars

\* C29: a safety tick before which the heartbeat advanced (since the
\* previous tick's comparison) ends with the stall counter at 0 and
\* core1_stall clear; any other tick ends with the counter one higher; and
\* at the end of a tick core1_stall is set exactly when the counter is above
\* CORE1_STALL_THRESHOLD.
C29_StallCounterCountsFrozenTicks ==
  [][ (pc0 = "checks" /\ pc0' = "store") =>
        /\ s_stall_count' = IF hb_advanced THEN 0 ELSE s_stall_count + 1
        /\ ("core1_stall" \in g_faults')
             <=> (s_stall_count' > CORE1_STALL_THRESHOLD) ]_vars

\* C30: a safety tick whose rc check runs when the control loop has recorded
\* a valid command at the present clock time does not end with signal_lost
\* set.
C30_FreshCommandNeverLost ==
  [][ (pc0 = "checks" /\ pc0' = "store" /\ g_last_rc_valid_ms = clock_ms)
        => "signal_lost" \notin g_faults' ]_vars

\* C31: the checks of a safety tick run only once the control core has
\* initialized the drivers they call, so no safety tick ends in a failed
\* assertion on a driver's initialized flag.
C31_SafetyTickAfterDriverInit ==
  [][ (pc0 = "checks" /\ pc0' # "checks") =>
        /\ battery_initialized /\ leak_initialized
        /\ pc0' # "assert" ]_vars

\* C32: p10_assert_fail is never entered again from a call on its own path:
\* the log_event, trigger_emergency_blow and emergency_blow_run it makes, and
\* the valve, pump and servo calls under them, fail no assertion.
C32_HandlerNeverReentered == pc0 # "nested"

\* the entry each check of safety_monitor.c appends when it raises its flag
FaultEvents ==
  [signal_lost |-> "EVT_SIGNAL_LOST", low_battery |-> "EVT_LOW_BATTERY",
   leak |-> "EVT_LEAK_DETECTED", depth_exceeded |-> "EVT_DEPTH_EXCEEDED",
   pitch_exceeded |-> "EVT_PITCH_EXCEEDED", core1_stall |-> "EVT_CORE1_STALL"]

\* the flags no statement of safety_monitor.c clears after safety_monitor_init
SetOnlyFaults == {"low_battery", "leak", "depth_exceeded", "pitch_exceeded"}

\* the signal-lost and signal-restored entries of the log, oldest first
SignalEntries ==
  SelectSeq(LogSeq, LAMBDA c : c \in {"EVT_SIGNAL_LOST", "EVT_SIGNAL_RESTORED"})

Alternates(s) ==
  \A i \in 1..Len(s) :
    s[i] = (IF i % 2 = 1 THEN "EVT_SIGNAL_LOST" ELSE "EVT_SIGNAL_RESTORED")

\* C38: a step appends an entry of a fault only when it raises the fault's
\* flag (so none while the flag stays set), a signal-restored entry only
\* when it clears signal_lost; the log never holds two entries of a set-only
\* fault; its signal-lost and signal-restored entries alternate, beginning
\* with signal-lost.
C38_FaultsLoggedOnRisingEdge ==
  [][ /\ \A f \in DOMAIN FaultEvents :
           LogCountOf(FaultEvents[f])' > LogCountOf(FaultEvents[f])
             => f \notin g_faults /\ f \in g_faults'
      /\ LogCountOf("EVT_SIGNAL_RESTORED")' > LogCountOf("EVT_SIGNAL_RESTORED")
           => "signal_lost" \in g_faults /\ "signal_lost" \notin g_faults'
      /\ \A f \in SetOnlyFaults : LogCountOf(FaultEvents[f])' <= 1
      /\ Alternates(SignalEntries)' ]_vars

\* the signal was lost and restored, and a later tick has begun
C38_Witness ==
  /\ SignalEntries = <<"EVT_SIGNAL_LOST", "EVT_SIGNAL_RESTORED">>
  /\ pc0 = "checks"

(**************** the two cores appending to the shared log *****************)
\* Bound on the appends the two cores make.
MaxAppends == 3

\* the statics other than the log
notlogmem == <<g_faults, g_emergency, g_last_rc_valid_ms, g_current_depth_cm,
               g_current_pitch_x10, s_last_heartbeat, s_stall_count,
               g_core1_heartbeat, emergency_active, emergency_reason,
               valve_initialized, valve_is_open, pump_initialized, pump_speed,
               servo_initialized, servo_position, battery_initialized,
               leak_initialized, s_leak_flag, watchdog_fed, trigger_calls>>

\* what a statement of log_event leaves alone
notlogwriters == <<notlogmem, clock_ms, leak_pin, disturbances, now_ms,
                   hb_advanced, libvars>>

\* the entries Core 0 appends while Core 1 starts: those of the checks and
\* of p10_assert_fail
Core0EventCodes == {"EVT_LOW_BATTERY", "EVT_LEAK_DETECTED", "EVT_ASSERT_FAIL"}

\* log_event, statement by statement.  Each statement is taken as one step:
\* the interleavings of the loads and stores inside a statement are left out.
\* log->entries[log->head].code = code;
log_event_store_entry(code) ==
  /\ log_entries' = [log_entries EXCEPT ![log_head] = code]
  /\ UNCHANGED <<log_head, log_count>>

\* log->head = next_index(log->head);
log_event_advance_head ==
  /\ log_head' = next_index(log_head)
  /\ UNCHANGED <<log_entries, log_count>>

\* if (log->count < EVENT_LOG_SIZE) { log->count++; }
log_event_count ==
  /\ log_count' = (IF log_count < EVENT_LOG_SIZE THEN log_count + 1 ELSE log_count)
  /\ UNCHANGED <<log_entries, log_head>>

\* Core 0, in its loop: a check of safety_monitor_run, or p10_assert_fail,
\* calls log_event
Core0AppendEntry ==
  /\ pc0 = "run" /\ log_count < MaxAppends
  /\ \E code \in Core0EventCodes : log_event_store_entry(code)
  /\ pc0' = "log_event: head"
  /\ UNCHANGED <<pc1, notlogwriters>>

Core0AppendHead ==
  /\ pc0 = "log_event: head"
  /\ log_event_advance_head
  /\ pc0' = "log_event: count"
  /\ UNCHANGED <<pc1, notlogwriters>>

Core0AppendCount ==
  /\ pc0 = "log_event: count"
  /\ log_event_count
  /\ pc0' = "run"
  /\ UNCHANGED <<pc1, notlogwriters>>

\* core1_main: init_hardware(); init_controllers(...)
Core1InitHardware ==
  /\ pc1 = "boot"
  /\ Commit(init_hardware(Mem))
  /\ pc1' = "log_event: entry"
  /\ UNCHANGED <<clock_ms, leak_pin, disturbances, pc0, now_ms, hb_advanced, libvars>>

\* core1_main: log_event(EVT_INIT_COMPLETE, 0, 0)
Core1AppendEntry ==
  /\ pc1 = "log_event: entry"
  /\ log_event_store_entry("EVT_INIT_COMPLETE")
  /\ pc1' = "log_event: head"
  /\ UNCHANGED <<pc0, notlogwriters>>

Core1AppendHead ==
  /\ pc1 = "log_event: head"
  /\ log_event_advance_head
  /\ pc1' = "log_event: count"
  /\ UNCHANGED <<pc0, notlogwriters>>

Core1AppendCount ==
  /\ pc1 = "log_event: count"
  /\ log_event_count
  /\ pc1' = "top"
  /\ UNCHANGED <<pc0, notlogwriters>>

LogWritersNext ==
  \/ Core0Init \/ Core0AppendEntry \/ Core0AppendHead \/ Core0AppendCount
  \/ Core1InitHardware \/ Core1AppendEntry \/ Core1AppendHead
  \/ Core1AppendCount

LogWritersSpec == Init /\ [][LogWritersNext]_vars

\* C39: no append is lost and head and count stay consistent: when neither
\* core is inside log_event, each of the count entries behind head is an
\* entry some append stored (log_init's EVT_NONE is never appended).
C39_NoAppendLost ==
  (pc0 = "run" /\ pc1 = "top") =>
    \A i \in 1..Len(LogSeq) : LogSeq[i] # "EVT_NONE"

(*********************** the state machine on its own ***********************)
\* Bound on the time of the state machine's calls, in milliseconds.
MaxSmTimeMs == 20

Commands == {"CMD_NONE", "CMD_DIVE", "CMD_SURFACE", "CMD_DEPTH_HOLD",
             "CMD_MANUAL", "CMD_EMERGENCY"}
\* measured depths: a negative reading, around the two thresholds, submerged,
\* and one centimetre past the maximum depth
MeasuredDepths == {-1, SURFACE_DEPTH_CM - 1, SURFACE_DEPTH_CM,
                   SURFACE_DEPTH_CM + 1, DIVE_COMPLETE_CM - 1,
                   DIVE_COMPLETE_CM, 60, MAX_DEPTH_CM + 1}
\* depths a caller passes to state_machine_set_target_depth
TargetDepths == {0, 150, MAX_DEPTH_CM + 1}
\* time between two calls, in milliseconds
SmTimeSteps == {0, 10}

\* The state machine constructed in either build.
StateMachineInit ==
  /\ PowerOn /\ leak_pin = FALSE /\ BallastIdle /\ LogIdle
  /\ PidIdle /\ AxisIdle /\ HandshakeIdle
  /\ sm = state_machine_init /\ ndebug \in BOOLEAN /\ sm_now_ms = 0
  /\ sm_failed = FALSE /\ sm_call = SmConstructed

\* one call of state_machine_process; after a failed assertion nothing runs
StateMachineProcess ==
  /\ ~sm_failed
  /\ \E cmd \in Commands, depth_cm \in MeasuredDepths, dt \in SmTimeSteps :
       /\ sm_now_ms + dt <= MaxSmTimeMs
       /\ sm_now_ms' = sm_now_ms + dt
       /\ SmCommit(state_machine_process(SmMem, cmd, depth_cm, sm_now_ms + dt))
       /\ sm_call' = [op |-> "state_machine_process", cmd |-> cmd,
                      depth_cm |-> depth_cm, from |-> sm.state]
  /\ UNCHANGED <<ndebug, notsmvars>>

\* one call of state_machine_set_target_depth
StateMachineSetTargetDepth ==
  /\ ~sm_failed
  /\ \E depth_cm \in TargetDepths :
       /\ SmCommit(state_machine_set_target_depth(SmMem, depth_cm))
       /\ sm_call' = [op |-> "state_machine_set_target_depth",
                      cmd |-> "CMD_NONE", depth_cm |-> depth_cm,
                      from |-> sm.state]
  /\ UNCHANGED <<ndebug, sm_now_ms, notsmvars>>

StateMachineNext == StateMachineProcess \/ StateMachineSetTargetDepth

StateMachineSpec == StateMachineInit /\ [][StateMachineNext]_smvars

\* the latest call was state_machine_process with this command
Processed(cmd) == sm_call.op = "state_machine_process" /\ sm_call.cmd = cmd

\* C11: once the state is Emergency, no call of state_machine_process or of
\* state_machine_set_target_depth changes it.
C11_EmergencyAbsorbing ==
  [][sm.state = "STATE_EMERGENCY" => sm'.state = "STATE_EMERGENCY"]_smvars

\* Emergency was entered and calls of both functions, one of them with a
\* command other than emergency, were made after it.
C11_Witness ==
  /\ sm.state = "STATE_EMERGENCY"
  /\ sm_call.op = "state_machine_process" /\ sm_call.cmd = "CMD_DIVE"
  /\ sm.target_depth_cm = 150


\* C12: a call of state_machine_process with the emergency command ends in
\* Emergency from every state and at every measured depth, and evaluates no
\* other transition (the state's start time and the target depth are left
\* alone); whenever a call returns in Emergency the ballast target is -100
\* and depth hold is disabled.
C12_EmergencyCommandWins ==
  [][ /\ Processed("CMD_EMERGENCY")' =>
           /\ sm'.state = "STATE_EMERGENCY"
           /\ sm'.state_start_ms = sm.state_start_ms
           /\ sm'.target_depth_cm = sm.target_depth_cm
      /\ sm'.state = "STATE_EMERGENCY" =>
           /\ sm'.ballast_target_level = -100
           /\ ~sm'.depth_hold_enabled ]_smvars

\* Emergency was entered and a later call carried a depth-hold command.
C12_Witness ==
  /\ sm.state = "STATE_EMERGENCY" /\ Processed("CMD_DEPTH_HOLD")
  /\ sm.ballast_target_level = -100 /\ ~sm.depth_hold_enabled


\* C13: from Surface a call of state_machine_process ends in Diving exactly
\* when the command is dive and the stored target depth is greater than 0;
\* with a target depth of 0 a dive command leaves the state Surface.
C13_DiveNeedsTarget ==
  [][ sm.state = "STATE_SURFACE" /\ sm_call'.op = "state_machine_process" =>
        /\ sm'.state = "STATE_DIVING" <=>
             (sm_call'.cmd = "CMD_DIVE" /\ sm.target_depth_cm > 0)
        /\ sm_call'.cmd = "CMD_DIVE" /\ sm.target_depth_cm = 0 =>
             sm'.state = "STATE_SURFACE" ]_smvars

\* A dive command with a target depth stored has moved the machine to Diving.
C13_Witness ==
  /\ sm.state = "STATE_DIVING" /\ Processed("CMD_DIVE")
  /\ sm.target_depth_cm = 150 /\ sm.ballast_target_level = 50


\* the latest call was state_machine_process at a measured depth that has
\* reached the dive-complete threshold
ProcessedDiveComplete ==
  sm_call.op = "state_machine_process" /\ sm_call.depth_cm >= DIVE_COMPLETE_CM

C15_DepthHoldTargetsMeasuredDepth ==
  [][ /\ sm.state = "STATE_SUBMERGED_MANUAL" /\ Processed("CMD_DEPTH_HOLD")'
      /\ sm'.state = "STATE_SUBMERGED_DEPTH_HOLD" /\ ~sm_failed'
      => sm'.target_depth_cm = sm_call'.depth_cm ]_smvars


\* C16: from SubmergedManual and from SubmergedDepthHold a call of
\* state_machine_process with the surface command returns in Surfacing with
\* the ballast target at -100 and depth hold disabled.
C16_SurfaceCommandFromSubmerged ==
  [][ /\ sm.state \in {"STATE_SUBMERGED_MANUAL", "STATE_SUBMERGED_DEPTH_HOLD"}
      /\ Processed("CMD_SURFACE")'
      => /\ sm'.state = "STATE_SURFACING"
         /\ sm'.ballast_target_level = -100
         /\ ~sm'.depth_hold_enabled ]_smvars

\* The surface command was given while depth hold was engaged.
C16_Witness ==
  /\ Processed("CMD_SURFACE") /\ sm_call.from = "STATE_SUBMERGED_DEPTH_HOLD"
  /\ sm.state = "STATE_SURFACING" /\ ~sm.depth_hold_enabled


\* C17: in Surfacing a call of state_machine_process with a command other
\* than emergency ends in Surface exactly when the measured depth is below
\* the surfaced threshold; otherwise it ends in Surfacing with the ballast
\* target at -100.
C17_SurfaceBelowThreshold ==
  [][ /\ sm.state = "STATE_SURFACING"
      /\ sm_call'.op = "state_machine_process"
      /\ sm_call'.cmd # "CMD_EMERGENCY"
      => IF sm_call'.depth_cm < SURFACE_DEPTH_CM
         THEN sm'.state = "STATE_SURFACE"
         ELSE /\ sm'.state = "STATE_SURFACING"
              /\ sm'.ballast_target_level = -100 ]_smvars

\* the edges of the state diagram, Emergency apart
DiagramEdges ==
  { <<"STATE_INIT", "STATE_SURFACE">>,
    <<"STATE_SURFACE", "STATE_DIVING">>,
    <<"STATE_DIVING", "STATE_SUBMERGED_MANUAL">>,
    <<"STATE_SUBMERGED_MANUAL", "STATE_SUBMERGED_DEPTH_HOLD">>,
    <<"STATE_SUBMERGED_DEPTH_HOLD", "STATE_SUBMERGED_MANUAL">>,
    <<"STATE_SUBMERGED_MANUAL", "STATE_SURFACING">>,
    <<"STATE_SUBMERGED_DEPTH_HOLD", "STATE_SURFACING">>,
    <<"STATE_SURFACING", "STATE_SURFACE">> }

MaxBallastTimeMs == 30000

\* targets a caller sets: both ends of the range, zero, the tolerance and
\* one unit past it on either side of zero, and both ends of int8_t
BallastTargets == {-100, -(BALLAST_LEVEL_TOLERANCE + 1), -BALLAST_LEVEL_TOLERANCE,
                   0, BALLAST_LEVEL_TOLERANCE, BALLAST_LEVEL_TOLERANCE + 1, 100}
                    \cup {-128, 127}
\* time between two calls, in milliseconds: none, a quarter of the fill time,
\* and more than the fill time
BallastTimeSteps == {0, BALLAST_FILL_TIME_MS \div 4, BALLAST_FILL_TIME_MS + 2000}
\* time of the first call
BallastStartTimes == {0, 1000}

\* the shortest advance of time between two calls
SlowestStep ==
  CHOOSE d \in BallastTimeSteps \ {0} : \A e \in BallastTimeSteps \ {0} : d <= e

\* updates after which a controller that started in Idle outside the tolerance
\* has arrived: one to leave Idle, one to set the time base, and the updates
\* the whole range takes at the shortest advance of time
SettleUpdates ==
  2 + (BALLAST_FULL_RANGE_UNITS * BALLAST_SCALE_X1000)
        \div ballast_delta_x1000(SlowestStep, BALLAST_FILL_TIME_MS)

BallastInit ==
  /\ PowerOn /\ leak_pin = FALSE /\ StateMachineIdle /\ LogIdle
  /\ PidIdle /\ AxisIdle /\ HandshakeIdle
  /\ ctrl = ballast_ctrl_init /\ ballast_now_ms \in BallastStartTimes
  /\ pump_speed_out = 0 /\ valve_open_out = FALSE
  /\ ballast_call = "ballast_ctrl_init" /\ ballast_updates = 0
  /\ start_error = -1

\* one call of ballast_ctrl_set_target; start_error records the error it
\* leaves when it finds the controller in Idle
BallastSetTarget ==
  /\ \E level \in BallastTargets :
       /\ ctrl' = ballast_ctrl_set_target(ctrl, level)
       /\ start_error' = IF ctrl.state = "BALLAST_STATE_IDLE"
                         THEN ABS(ctrl'.target_level - ctrl.current_level)
                         ELSE -1
  /\ ballast_call' = "ballast_ctrl_set_target"
  /\ ballast_updates' = 0
  /\ UNCHANGED <<ballast_now_ms, pump_speed_out, valve_open_out, notballastvars>>

\* one call of ballast_ctrl_update; ballast_updates counts the calls before
\* which time had advanced, up to SettleUpdates
BallastUpdate ==
  /\ \E dt \in BallastTimeSteps :
       /\ ballast_now_ms + dt <= MaxBallastTimeMs
       /\ ballast_now_ms' = ballast_now_ms + dt
       /\ LET r == ballast_ctrl_update(ctrl, ballast_now_ms + dt)
          IN /\ ctrl' = r.ctrl
             /\ pump_speed_out' = r.pump
             /\ valve_open_out' = r.valve
       /\ ballast_updates' =
            IF dt > 0 /\ ballast_updates < SettleUpdates
            THEN ballast_updates + 1 ELSE ballast_updates
  /\ ballast_call' = "ballast_ctrl_update"
  /\ UNCHANGED <<start_error, notballastvars>>

BallastNext == BallastSetTarget \/ BallastUpdate

BallastSpec == BallastInit /\ [][BallastNext]_ballastvars


\* the controller is in Holding with the level estimate on the target
HoldingAtTarget ==
  /\ ctrl.state = "BALLAST_STATE_HOLDING"
  /\ ctrl.current_level = ctrl.target_level
  /\ ctrl.current_level_x1000 = ctrl.target_level * BALLAST_SCALE_X1000

\* C18 as stated: whatever target ballast_ctrl_set_target gives a controller
\* in Idle, SettleUpdates calls of ballast_ctrl_update with time advancing
\* end in Holding with the level estimate on the target, and in Holding the
\* estimate is on the target.
C18_EveryTargetReached ==
  start_error >= 0 =>
    /\ ballast_updates >= SettleUpdates => HoldingAtTarget
    /\ ctrl.state = "BALLAST_STATE_HOLDING" => HoldingAtTarget

\* C18: when ballast_ctrl_set_target gives a controller in Idle a target more
\* than the tolerance away from the level estimate, SettleUpdates calls of
\* ballast_ctrl_update with time advancing end in Holding with the level
\* estimate on the target, and in Holding the estimate is on the target.
C18_TargetOutsideToleranceReached ==
  start_error > BALLAST_LEVEL_TOLERANCE =>
    /\ ballast_updates >= SettleUpdates => HoldingAtTarget
    /\ ctrl.state = "BALLAST_STATE_HOLDING" => HoldingAtTarget

\* The controller has drained from Idle to the lower end of the range.
C18_Witness ==
  /\ start_error > BALLAST_LEVEL_TOLERANCE
  /\ ballast_updates >= SettleUpdates
  /\ HoldingAtTarget /\ ctrl.target_level = -100


\* C19: a call of ballast_ctrl_update in Idle with |target - current| exactly
\* at the tolerance stays in Idle and returns pump 0 and the valve closed;
\* the call leaves Idle exactly when the error is greater than the
\* tolerance, for Filling when the target is above the estimate and for
\* Draining otherwise.
C19_IdleLeftOnlyPastTolerance ==
  [][ ctrl.state = "BALLAST_STATE_IDLE" /\ ballast_call' = "ballast_ctrl_update"
      => LET error == ctrl.target_level - ctrl.current_level
         IN /\ ABS(error) = BALLAST_LEVEL_TOLERANCE =>
                 /\ ctrl'.state = "BALLAST_STATE_IDLE"
                 /\ pump_speed_out' = 0 /\ ~valve_open_out'
            /\ ctrl'.state =
                 IF ABS(error) <= BALLAST_LEVEL_TOLERANCE
                 THEN "BALLAST_STATE_IDLE"
                 ELSE IF ctrl.target_level > ctrl.current_level
                 THEN "BALLAST_STATE_FILLING"
                 ELSE "BALLAST_STATE_DRAINING" ]_ballastvars

\* An update in Idle has found the target exactly the tolerance above the
\* level estimate and has stayed in Idle.
C19_Witness ==
  /\ ctrl.state = "BALLAST_STATE_IDLE" /\ ballast_call = "ballast_ctrl_update"
  /\ ctrl.target_level - ctrl.current_level = BALLAST_LEVEL_TOLERANCE
  /\ pump_speed_out = 0 /\ ~valve_open_out

\* C20: the level estimate changes only in calls of ballast_ctrl_update that
\* find the state Filling or Draining, and the controller enters Holding
\* exactly in the update, made in Filling or Draining, after which the
\* estimate is on the target.
C20_EstimateMovesOnlyWhilePumping ==
  [][ /\ ( \/ ctrl'.current_level # ctrl.current_level
            \/ ctrl'.current_level_x1000 # ctrl.current_level_x1000 )
          => /\ ballast_call' = "ballast_ctrl_update"
             /\ ctrl.state \in {"BALLAST_STATE_FILLING", "BALLAST_STATE_DRAINING"}
      /\ ctrl.state # "BALLAST_STATE_HOLDING"
          => ( ctrl'.state = "BALLAST_STATE_HOLDING" <=>
                 /\ ballast_call' = "ballast_ctrl_update"
                 /\ ctrl.state \in {"BALLAST_STATE_FILLING",
                                     "BALLAST_STATE_DRAINING"}
                 /\ ctrl'.current_level = ctrl'.target_level )
    ]_ballastvars

\* The update that brought the estimate onto the target, still returning the
\* filling outputs, has entered Holding.
C20_Witness ==
  /\ ctrl.state = "BALLAST_STATE_HOLDING" /\ ballast_call = "ballast_ctrl_update"
  /\ ctrl.current_level = ctrl.target_level
  /\ ctrl.target_level = BALLAST_LEVEL_TOLERANCE + 1
  /\ pump_speed_out = 100

\* C33: whatever ballast_ctrl_set_target did since the previous update, an
\* update that finds Filling never lowers the level estimate and an update
\* that finds Draining never raises it.
C33_EstimateFollowsPump ==
  [][ ballast_call' = "ballast_ctrl_update" =>
        /\ ctrl.state = "BALLAST_STATE_FILLING" =>
             /\ ctrl'.current_level >= ctrl.current_level
             /\ ctrl'.current_level_x1000 >= ctrl.current_level_x1000
        /\ ctrl.state = "BALLAST_STATE_DRAINING" =>
             /\ ctrl'.current_level <= ctrl.current_level
             /\ ctrl'.current_level_x1000 <= ctrl.current_level_x1000
    ]_ballastvars

\* C35: an update that finds Filling, or leaves Idle for Filling, returns
\* pump 100 with the valve closed; one that finds Draining, or leaves Idle
\* for Draining, returns pump -100 with the valve open; every other update
\* returns pump 0 with the valve closed; so the valve is reported open
\* exactly when the pump is commanded to -100.
C35_OutputsFollowState ==
  [][ ballast_call' = "ballast_ctrl_update" =>
        /\ <<pump_speed_out', valve_open_out'>> =
             IF \/ ctrl.state = "BALLAST_STATE_FILLING"
                \/ /\ ctrl.state = "BALLAST_STATE_IDLE"
                   /\ ctrl'.state = "BALLAST_STATE_FILLING"
             THEN <<100, FALSE>>
             ELSE IF \/ ctrl.state = "BALLAST_STATE_DRAINING"
                     \/ /\ ctrl.state = "BALLAST_STATE_IDLE"
                        /\ ctrl'.state = "BALLAST_STATE_DRAINING"
             THEN <<-100, TRUE>>
             ELSE <<0, FALSE>>
        /\ valve_open_out' <=> (pump_speed_out' = -100) ]_ballastvars

\* an update has run in Draining, below the level it started from, and
\* returned the draining outputs
C35_Witness ==
  /\ ballast_call = "ballast_ctrl_update"
  /\ ctrl.state = "BALLAST_STATE_DRAINING" /\ ctrl.current_level < 0
  /\ pump_speed_out = -100 /\ valve_open_out

\* C36: an update that finds Holding returns pump 0 with the valve closed,
\* leaves the estimate as it was, and ends in Idle exactly when
\* |target - current| is above twice the tolerance, in Holding otherwise.
C36_HoldingRevertsPastDoubleTolerance ==
  [][ ( /\ ballast_call' = "ballast_ctrl_update"
        /\ ctrl.state = "BALLAST_STATE_HOLDING" )
      => /\ pump_speed_out' = 0 /\ ~valve_open_out'
         /\ ctrl'.current_level = ctrl.current_level
         /\ ctrl'.current_level_x1000 = ctrl.current_level_x1000
         /\ ctrl'.state =
              IF ABS(ctrl.target_level - ctrl.current_level)
                   > 2 * BALLAST_LEVEL_TOLERANCE
              THEN "BALLAST_STATE_IDLE" ELSE "BALLAST_STATE_HOLDING"
    ]_ballastvars

\* an update in Holding has found the target exactly twice the tolerance
\* from the estimate and has stayed in Holding
C36_Witness ==
  /\ ballast_call = "ballast_ctrl_update"
  /\ ctrl.state = "BALLAST_STATE_HOLDING"
  /\ ABS(ctrl.target_level - ctrl.current_level) = 2 * BALLAST_LEVEL_TOLERANCE
  /\ pump_speed_out = 0 /\ ~valve_open_out

(************* the ballast controller under arbitrary time stamps ***********)
\* the time stamps a caller passes to ballast_ctrl_update, in any order: the
\* intervals between them are zero, a quarter of and half the fill time,
\* more than the fill time and, for a time stamp behind the previous one,
\* the wrapped difference
BallastTimeStamps ==
  {0, 1000, 1000 + BALLAST_FILL_TIME_MS \div 4,
   1000 + BALLAST_FILL_TIME_MS \div 2, 1000 + 2 * BALLAST_FILL_TIME_MS}

\* one call of ballast_ctrl_update at any time stamp
BallastUpdateAt ==
  /\ \E now \in BallastTimeStamps :
       /\ ballast_now_ms' = now
       /\ LET r == ballast_ctrl_update(ctrl, now)
          IN /\ ctrl' = r.ctrl
             /\ pump_speed_out' = r.pump
             /\ valve_open_out' = r.valve
       /\ ballast_call' = IF now < ballast_now_ms
                          THEN "ballast_ctrl_update at an earlier time"
                          ELSE "ballast_ctrl_update"
  /\ UNCHANGED <<ballast_updates, start_error, notballastvars>>

BallastClockNext == BallastSetTarget \/ BallastUpdateAt

BallastClockSpec == BallastInit /\ [][BallastClockNext]_ballastvars

\* the fixed-point estimate, the estimate and the target of c are in range
BallastInRange(c) ==
  /\ c.target_level \in -100..100 /\ c.current_level \in -100..100
  /\ c.current_level_x1000 >= -100 * BALLAST_SCALE_X1000
  /\ c.current_level_x1000 <= 100 * BALLAST_SCALE_X1000

\* C37: after every operation the estimate and the target are within
\* [-100, 100], and from there the time integration, for either pumping
\* direction and any time stamp (equal to, ahead of, more than the fill time
\* ahead of, or behind the previous one), moves the fixed-point estimate
\* only in the pumping direction, by at most the full range, and leaves it
\* in range.
C37_IntegrationMonotoneAndBounded ==
  /\ BallastInRange(ctrl)
  /\ \A now \in BallastTimeStamps, direction \in {-1, 1} :
       LET c1 == ballast_update_level(ctrl, direction, now)
           moved == direction * (c1.current_level_x1000 - ctrl.current_level_x1000)
       IN /\ moved >= 0
          /\ moved <= BALLAST_FULL_RANGE_UNITS * BALLAST_SCALE_X1000
          /\ BallastInRange(c1)

\* an update in Filling with a time stamp behind the previous one has
\* integrated the wrapped interval, ending on the upper end of the range
C37_Witness ==
  /\ ballast_call = "ballast_ctrl_update at an earlier time"
  /\ pump_speed_out = 100 /\ ctrl.last_update_ms = ballast_now_ms
  /\ ctrl.target_level = 100 /\ ctrl.current_level_x1000 = 100 * BALLAST_SCALE_X1000

(************************** the event log on its own ************************)
\* Bound on the entries appended beyond the capacity of the log.
MaxOverwritten == 2

\* the time stamps a caller supplies with its entries, by position
StampPatterns == {"rising", "falling", "constant", "scattered"}
timestamp_of(pattern, i) ==
  CASE pattern = "rising" -> 10 * i
    [] pattern = "falling" -> 1000 - 10 * i
    [] pattern = "constant" -> 0
    [] OTHER -> (7 * i) % 5

\* the i-th entry a caller appends: param1 numbers the entries, as in the
\* wrap-around test
AppendedEntry(pattern, i) ==
  EventLogEntry(timestamp_of(pattern, i),
                IF i % 2 = 0 THEN "EVT_BOOT" ELSE "EVT_INIT_COMPLETE",
                i % 256, 0)

\* index_from_newest of a read: the two newest slots, the last slot, the
\* first index past the capacity, and the largest uint8_t
ReadIndexes == {0, 1, EVENT_LOG_SIZE - 1, EVENT_LOG_SIZE, 255}

LogInit ==
  /\ PowerOn /\ leak_pin = FALSE /\ StateMachineIdle /\ BallastIdle
  /\ PidIdle /\ AxisIdle /\ HandshakeIdle
  /\ event_log = EventLog_init
  /\ got = [index |-> 0, found |-> FALSE,
            entry |-> EventLogEntry(0, "EVT_NONE", 0, 0)]
  /\ appended = <<>> /\ stamps \in StampPatterns /\ log_call = "log_init"

\* one call of log_event
LogEvent ==
  /\ Len(appended) < EVENT_LOG_SIZE + MaxOverwritten
  /\ LET e == AppendedEntry(stamps, Len(appended))
     IN /\ event_log' = EventLog_event(event_log, e.timestamp_ms, e.code,
                                       e.param1, e.param2)
        /\ appended' = Append(appended, e)
  /\ log_call' = "log_event"
  /\ UNCHANGED <<got, stamps, notlogvars>>

\* one call of log_get_newest with a cleared entry_out
LogGetNewest ==
  /\ \E n \in ReadIndexes :
       LET r == EventLog_get_newest(event_log, n,
                                    EventLogEntry(0, "EVT_NONE", 0, 0))
       IN got' = [index |-> n, found |-> r.found, entry |-> r.entry]
  /\ log_call' = "log_get_newest"
  /\ UNCHANGED <<event_log, appended, stamps, notlogvars>>

\* a watchdog reset: the memory keeps its contents and start-up runs log_init
LogWarmRestart ==
  /\ event_log' = EventLog_init
  /\ appended' = <<>>
  /\ log_call' = "log_init after watchdog reset"
  /\ UNCHANGED <<got, stamps, notlogvars>>

\* a power cycle: the memory is lost and start-up runs log_init
LogColdBoot ==
  /\ event_log' = EventLog_init
  /\ appended' = <<>>
  /\ log_call' = "log_init after power loss"
  /\ UNCHANGED <<got, stamps, notlogvars>>

LogNext == LogEvent \/ LogGetNewest \/ LogWarmRestart \/ LogColdBoot

LogSpec == LogInit /\ [][LogNext]_logvars

\* the entry appended j-th from last (0 for the last)
NthNewest(j) == appended[Len(appended) - j]

\* what log_get_newest answers for index n
Get(n) == EventLog_get_newest(event_log, n, EventLogEntry(0, "EVT_NONE", 0, 0))

\* C21: once more entries than the capacity were appended to an initialized
\* log (capacity + k, k >= 1), the count is the capacity, index 0 reads the
\* last entry appended, index capacity-1 reads the (k+1)-th entry appended,
\* and no index reads one of the k oldest entries.
C21_WrapAroundOverwritesOldest ==
  Len(appended) > EVENT_LOG_SIZE =>
    LET k == Len(appended) - EVENT_LOG_SIZE
    IN /\ EventLog_count(event_log) = EVENT_LOG_SIZE
       /\ Get(0).found /\ Get(0).entry = appended[Len(appended)]
       /\ Get(EVENT_LOG_SIZE - 1).found
       /\ Get(EVENT_LOG_SIZE - 1).entry = appended[k + 1]
       /\ \A n \in 0..255 : \A i \in 1..k :
            ~(Get(n).found /\ Get(n).entry = appended[i])

\* Two entries more than the capacity were appended and the oldest entry
\* still held was read.
C21_Witness ==
  /\ Len(appended) = EVENT_LOG_SIZE + 2
  /\ log_call = "log_get_newest" /\ got.index = EVENT_LOG_SIZE - 1
  /\ got.found /\ got.entry = appended[3]


\* C22: after any appends to an initialized log, every index n below the
\* count reads the entry appended n-th from last, whatever the time stamps
\* of the entries, and every index from the count up (every index on an
\* empty log) reads nothing and leaves entry_out alone.
C22_ReadsInReverseInsertionOrder ==
  /\ EventLog_count(event_log) =
       IF Len(appended) < EVENT_LOG_SIZE THEN Len(appended) ELSE EVENT_LOG_SIZE
  /\ \A n \in 0..255 :
       IF n < EventLog_count(event_log)
       THEN Get(n).found /\ Get(n).entry = NthNewest(n)
       ELSE ~Get(n).found /\ Get(n).entry = EventLogEntry(0, "EVT_NONE", 0, 0)
  /\ log_call = "log_get_newest" =>
       \/ got.index >= EventLog_count(event_log) /\ ~got.found
       \/ got.index < EventLog_count(event_log) /\ got.found
          /\ got.entry = NthNewest(got.index)

\* With time stamps that fall as entries are appended, the second newest
\* entry of a log that has wrapped was read: it carries the larger stamp.
C22_Witness ==
  /\ stamps = "falling" /\ Len(appended) > EVENT_LOG_SIZE
  /\ log_call = "log_get_newest" /\ got.index = 1 /\ got.found
  /\ got.entry = NthNewest(1)
  /\ got.entry.timestamp_ms > NthNewest(0).timestamp_ms


\* C23: log_init run after a watchdog reset leaves every entry, the head and
\* the count of the log as they were, and log_init run after a power loss
\* leaves the log empty.
C23_LogSurvivesWatchdogReset ==
  [][ /\ log_call' = "log_init after watchdog reset" => event_log' = event_log
      /\ log_call' = "log_init after power loss" =>
           EventLog_count(event_log') = 0 ]_logvars

(************************ the PID controller on its own **********************)
\* the gains the caller gives pid_init: 0 or 2, 0 or 1/2, 0 or 1
PidGains == {0, F(2)} \X {0, F(1) \div 2} \X {0, F(1)}

\* the set points, measurements and time steps (0, 1/2 and 1 second) the
\* caller gives pid_update
PidSetpoints == {0, F(400)}
PidMeasurements == {0, F(200)}
PidTimeSteps == {0, F(1) \div 2, F(1)}

\* the limits the caller gives pid_set_limits: out_min, out_max, int_limit
PidLimits == { <<F(-1000), F(1000), F(300)>>, <<F(-100), F(100), F(1000)>>,
               <<F(100), F(-100), F(300)>> }

PidInit ==
  /\ PowerOn /\ leak_pin = FALSE /\ BallastIdle /\ LogIdle /\ AxisIdle
  /\ HandshakeIdle
  /\ sm = state_machine_init /\ sm_now_ms = 0 /\ sm_failed = FALSE
  /\ sm_call = SmConstructed
  /\ ndebug \in BOOLEAN
  /\ \E g \in PidGains, on_measurement \in BOOLEAN :
       pid = [pid_init(g[1], g[2], g[3])
                EXCEPT !.use_derivative_on_measurement = on_measurement]
  /\ pid_output = 0 /\ pid_failed = FALSE /\ pid_call = PidConstructed

\* one call of pid_update
PidUpdate ==
  /\ ~pid_failed
  /\ \E setpoint \in PidSetpoints, measurement \in PidMeasurements,
        dt \in PidTimeSteps :
       LET r == pid_update(PidMem(pid, ndebug, pid_failed), setpoint,
                           measurement, dt)
       IN /\ pid' = PidStruct(r)
          /\ pid_failed' = r.fail
          /\ pid_output' = IF r.fail THEN pid_output ELSE r.output
          /\ pid_call' = [op |-> "pid_update", setpoint |-> setpoint,
                          measurement |-> measurement, dt |-> dt]
  /\ UNCHANGED <<ndebug, notpidvars>>

\* one call of pid_reset
PidReset ==
  /\ ~pid_failed
  /\ pid' = PidStruct(pid_reset(PidMem(pid, ndebug, pid_failed)))
  /\ pid_call' = [op |-> "pid_reset", setpoint |-> 0, measurement |-> 0,
                  dt |-> 0]
  /\ UNCHANGED <<pid_output, pid_failed, ndebug, notpidvars>>

\* one call of pid_set_limits
PidSetLimits ==
  /\ ~pid_failed
  /\ \E l \in PidLimits :
       LET r == pid_set_limits(PidMem(pid, ndebug, pid_failed), l[1], l[2], l[3])
       IN /\ pid' = PidStruct(r)
          /\ pid_failed' = r.fail
  /\ pid_call' = [op |-> "pid_set_limits", setpoint |-> 0, measurement |-> 0,
                  dt |-> 0]
  /\ UNCHANGED <<pid_output, ndebug, notpidvars>>

PidNext == PidUpdate \/ PidReset \/ PidSetLimits

PidSpec == PidInit /\ [][PidNext]_pidvars

\* x limited to [lo, hi]
Clamped(x, lo, hi) == IF x > hi THEN hi ELSE IF x < lo THEN lo ELSE x

\* C24: a pid_update with dt > 0 that directly follows a pid_reset returns
\* kp * error + ki * error * dt limited to [output_min, output_max], where
\* error = setpoint - measurement, whatever the gains.
C24_FirstUpdateAfterReset ==
  [][ ( /\ pid_call.op = "pid_reset"
        /\ pid_call'.op = "pid_update" /\ pid_call'.dt > 0 )
      => LET error == pid_call'.setpoint - pid_call'.measurement
         IN pid_output' =
              Clamped(fmul(pid.kp, error)
                        + fmul(pid.ki, fmul(error, pid_call'.dt)),
                      pid.output_min, pid.output_max) ]_pidvars

\* C25: after every pid_update with dt > 0, whatever the set points, the
\* measurements and the calls before it, the magnitude of the integral is at
\* most integral_limit.
C25_IntegralWithinLimit ==
  (pid_call.op = "pid_update" /\ pid_call.dt > 0)
    => ABS(pid.integral) <= pid.integral_limit

\* an update has pulled the integral back to a limit that pid_set_limits
\* lowered, on the lower side
C25_Witness ==
  /\ pid_call.op = "pid_update" /\ pid_call.dt > 0
  /\ pid.integral_limit = F(300) /\ pid.integral = -F(300)

(******************* the depth and pitch controllers on their own ************)
\* the targets, measurements and time steps (0 and 1 second) the caller gives
DepthTargets == {-1, MAX_DEPTH_CM, MAX_DEPTH_CM + 1}
PitchTargets == {-pitch_ctrl_limit_x10 - 1, pitch_ctrl_limit_x10,
                 pitch_ctrl_limit_x10 + 1}
CurrentDepths == {MAX_DEPTH_CM}
CurrentPitches == {0, pitch_ctrl_limit_x10}
AxisTimeSteps == {0, F(1)}

\* integral, prev_error and prev_measurement of the controller's PID
PidState(c) == <<c.pid.integral, c.pid.prev_error, c.pid.prev_measurement>>

\* the call op(arg) on the controller c
AxisCall(op, arg, c) ==
  [op |-> op, arg |-> arg, was_enabled |-> c.enabled,
   was_settled |-> (PidState(c) = <<0, 0, 0>>)]

AxisInit ==
  /\ PowerOn /\ leak_pin = FALSE /\ BallastIdle /\ LogIdle /\ PidIdle
  /\ HandshakeIdle
  /\ sm = state_machine_init /\ sm_now_ms = 0 /\ sm_failed = FALSE
  /\ sm_call = SmConstructed
  /\ ndebug \in BOOLEAN
  /\ depth_ctrl = depth_ctrl_init /\ pitch_ctrl = pitch_ctrl_init
  /\ ballast_cmd = 0 /\ pitch_cmd = 0 /\ axis_failed = FALSE
  /\ axis_call = AxisConstructed

DepthCtrlSetTarget ==
  /\ ~axis_failed
  /\ \E depth_cm \in DepthTargets :
       LET r == depth_ctrl_set_target(AxisMem(depth_ctrl, ndebug, axis_failed),
                                      depth_cm)
       IN /\ depth_ctrl' = AxisStruct(r)
          /\ axis_failed' = r.fail
          /\ axis_call' = AxisCall("depth_ctrl_set_target", depth_cm, depth_ctrl)
  /\ UNCHANGED <<pitch_ctrl, ballast_cmd, pitch_cmd, ndebug, notaxisvars>>

DepthCtrlEnable ==
  /\ ~axis_failed
  /\ \E enable \in BOOLEAN :
       LET r == depth_ctrl_enable(AxisMem(depth_ctrl, ndebug, axis_failed), enable)
       IN /\ depth_ctrl' = AxisStruct(r)
          /\ axis_call' = AxisCall("depth_ctrl_enable", enable, depth_ctrl)
  /\ UNCHANGED <<pitch_ctrl, ballast_cmd, pitch_cmd, axis_failed, ndebug,
                 notaxisvars>>

DepthCtrlUpdate ==
  /\ ~axis_failed
  /\ \E current_depth_cm \in CurrentDepths, dt \in AxisTimeSteps :
       LET r == depth_ctrl_update(AxisMem(depth_ctrl, ndebug, axis_failed),
                                  current_depth_cm, dt)
       IN /\ depth_ctrl' = AxisStruct(r)
          /\ axis_failed' = r.fail
          /\ ballast_cmd' = IF r.fail THEN ballast_cmd ELSE r.cmd
          /\ axis_call' = AxisCall("depth_ctrl_update", current_depth_cm, depth_ctrl)
  /\ UNCHANGED <<pitch_ctrl, pitch_cmd, ndebug, notaxisvars>>

PitchCtrlSetTarget ==
  /\ ~axis_failed
  /\ \E pitch_x10 \in PitchTargets :
       LET r == pitch_ctrl_set_target(AxisMem(pitch_ctrl, ndebug, axis_failed),
                                      pitch_x10)
       IN /\ pitch_ctrl' = AxisStruct(r)
          /\ axis_call' = AxisCall("pitch_ctrl_set_target", pitch_x10, pitch_ctrl)
  /\ UNCHANGED <<depth_ctrl, ballast_cmd, pitch_cmd, axis_failed, ndebug,
                 notaxisvars>>

PitchCtrlEnable ==
  /\ ~axis_failed
  /\ \E enable \in BOOLEAN :
       LET r == pitch_ctrl_enable(AxisMem(pitch_ctrl, ndebug, axis_failed), enable)
       IN /\ pitch_ctrl' = AxisStruct(r)
          /\ axis_call' = AxisCall("pitch_ctrl_enable", enable, pitch_ctrl)
  /\ UNCHANGED <<depth_ctrl, ballast_cmd, pitch_cmd, axis_failed, ndebug,
                 notaxisvars>>

PitchCtrlUpdate ==
  /\ ~axis_failed
  /\ \E current_pitch_x10 \in CurrentPitches, dt \in AxisTimeSteps :
       LET r == pitch_ctrl_update(AxisMem(pitch_ctrl, ndebug, axis_failed),
                                  current_pitch_x10, dt)
       IN /\ pitch_ctrl' = AxisStruct(r)
          /\ axis_failed' = r.fail
          /\ pitch_cmd' = IF r.fail THEN pitch_cmd ELSE r.cmd
          /\ axis_call' = AxisCall("pitch_ctrl_update", current_pitch_x10, pitch_ctrl)
  /\ UNCHANGED <<depth_ctrl, ballast_cmd, ndebug, notaxisvars>>

AxisNext ==
  \/ DepthCtrlSetTarget \/ DepthCtrlEnable \/ DepthCtrlUpdate
  \/ PitchCtrlSetTarget \/ PitchCtrlEnable \/ PitchCtrlUpdate

AxisSpec == AxisInit /\ [][AxisNext]_axisvars

\* C26: a set_target with a value outside 0..MAX_DEPTH_CM (depth) or outside
\* -10*MAX_PITCH_DEG..10*MAX_PITCH_DEG (pitch) leaves the stored target as it
\* was, which is the last valid target; a value inside the range becomes the
\* stored target.
C26_OutOfRangeTargetKeepsLast ==
  [][ /\ axis_call'.op = "depth_ctrl_set_target" =>
           depth_ctrl'.target =
             IF axis_call'.arg >= 0 /\ axis_call'.arg <= MAX_DEPTH_CM
             THEN axis_call'.arg ELSE depth_ctrl.target
      /\ axis_call'.op = "pitch_ctrl_set_target" =>
           pitch_ctrl'.target =
             IF /\ axis_call'.arg >= -10 * MAX_PITCH_DEG
                /\ axis_call'.arg <= 10 * MAX_PITCH_DEG
             THEN axis_call'.arg ELSE pitch_ctrl.target ]_axisvars

\* the depth controller has returned from a set_target above MAX_DEPTH_CM
\* with the target it had accepted before, while the pitch controller holds a
\* target it has accepted
C26_Witness ==
  /\ axis_call.op = "depth_ctrl_set_target" /\ axis_call.arg = MAX_DEPTH_CM + 1
  /\ ~axis_failed /\ depth_ctrl.target = MAX_DEPTH_CM
  /\ pitch_ctrl.target = 10 * MAX_PITCH_DEG

\* C27: enable(true) on a disabled controller zeroes integral, previous error
\* and previous measurement; enable(true) on an enabled controller and
\* enable(false) leave the three as they were.
C27_EnableResetsOnlyFromDisabled ==
  [][ /\ axis_call'.op = "depth_ctrl_enable" =>
           PidState(depth_ctrl') =
             IF axis_call'.arg /\ ~depth_ctrl.enabled THEN <<0, 0, 0>>
             ELSE PidState(depth_ctrl)
      /\ axis_call'.op = "pitch_ctrl_enable" =>
           PidState(pitch_ctrl') =
             IF axis_call'.arg /\ ~pitch_ctrl.enabled THEN <<0, 0, 0>>
             ELSE PidState(pitch_ctrl) ]_axisvars

\* a disabled depth controller with PID state left over from its updates has
\* been enabled, while the pitch controller, enabled, keeps PID state
C27_Witness ==
  /\ axis_call.op = "depth_ctrl_enable" /\ axis_call.arg
  /\ ~axis_call.was_enabled /\ ~axis_call.was_settled
  /\ PidState(depth_ctrl) = <<0, 0, 0>>
  /\ pitch_ctrl.enabled /\ PidState(pitch_ctrl) # <<0, 0, 0>>

(*********************** the start-up handshake on its own ******************)
CORE1_ALIVE_TIMEOUT_MS == 100
CORE1_READY_TIMEOUT_MS == 5000

\* Bound on the words Core 1 pushes.
MaxWords == 3

\* the words Core 1 can push: the three magic numbers and a progress word (a
\* boot stage number; any other word is treated alike, but for the display)
Core1Words == {"CORE1_ALIVE_MAGIC", "CORE1_READY_MAGIC", "CORE1_INIT_FAILED",
               "BOOT_STAGE_PRESSURE"}

\* wait_for_alive after the pop: the comparison with the ALIVE magic
wait_for_alive_check(alive_magic) ==
  IF alive_magic # "CORE1_ALIVE_MAGIC" THEN "HANDSHAKE_ALIVE_BAD_MAGIC"
  ELSE "HANDSHAKE_OK"

\* faulty variant: any word but INIT_FAILED ends the READY wait with success
process_ready_message_accepting_progress(msg) ==
  IF msg = "CORE1_INIT_FAILED" THEN "HANDSHAKE_INIT_FAILED" ELSE "HANDSHAKE_OK"

\* process_ready_message: the result, or the sentinel 0xFF to keep waiting
process_ready_message(msg) ==
  IF msg = "CORE1_READY_MAGIC" THEN "HANDSHAKE_OK"
  ELSE IF msg = "CORE1_INIT_FAILED" THEN "HANDSHAKE_INIT_FAILED"
  ELSE "0xFF"

\* multicore_fifo_pop_blocking() on a FIFO that holds a word
FifoPop ==
  /\ fifo' = Tail(fifo)
  /\ hs_received' = Append(hs_received, Head(fifo))

HandshakeReturn(result) ==
  /\ hs_pc' = "returned" /\ hs_result' = result /\ UNCHANGED hs_i

\* handshake_wait_for_core1 up to the first loop: the call is made after
\* main's boot delay, so start_time is BOOT_DELAY_MS or later
handshake_wait_for_core1 ==
  /\ hs_pc = "call"
  /\ hs_pc' = (IF /\ CORE1_ALIVE_TIMEOUT_MS > 0 /\ CORE1_READY_TIMEOUT_MS > 0
                  /\ BOOT_DELAY_MS > 0 /\ CORE1_ALIVE_TIMEOUT_MS <= 10000
               THEN "wait_for_alive" ELSE "assert")
  /\ hs_i' = 0
  /\ UNCHANGED <<fifo, hs_result, hs_received, hs_pushed, nothandshakevars>>

\* wait_for_fifo: an iteration that finds the FIFO empty: sleep_ms(1)
AliveWait ==
  /\ hs_pc = "wait_for_alive" /\ hs_i < CORE1_ALIVE_TIMEOUT_MS /\ fifo = <<>>
  /\ hs_i' = hs_i + 1
  /\ UNCHANGED <<fifo, hs_pc, hs_result, hs_received, hs_pushed, nothandshakevars>>

\* wait_for_fifo finds a word; wait_for_alive pops and compares it
AliveReceive ==
  /\ hs_pc = "wait_for_alive" /\ hs_i < CORE1_ALIVE_TIMEOUT_MS /\ fifo # <<>>
  /\ FifoPop
  /\ LET result == wait_for_alive_check(Head(fifo))
     IN IF result = "HANDSHAKE_OK"
        THEN hs_pc' = "wait_for_ready" /\ hs_i' = 0 /\ UNCHANGED hs_result
        ELSE HandshakeReturn(result)
  /\ UNCHANGED <<hs_pushed, nothandshakevars>>

\* wait_for_fifo leaves its loop: wait_for_alive returns the timeout
AliveTimeout ==
  /\ hs_pc = "wait_for_alive" /\ hs_i >= CORE1_ALIVE_TIMEOUT_MS
  /\ HandshakeReturn("HANDSHAKE_ALIVE_TIMEOUT")
  /\ UNCHANGED <<fifo, hs_received, hs_pushed, nothandshakevars>>

\* wait_for_ready: an iteration that finds the FIFO empty
ReadyWait ==
  /\ hs_pc = "wait_for_ready" /\ hs_i < CORE1_READY_TIMEOUT_MS /\ fifo = <<>>
  /\ hs_i' = hs_i + 1
  /\ UNCHANGED <<fifo, hs_pc, hs_result, hs_received, hs_pushed, nothandshakevars>>

\* wait_for_ready: an iteration that pops a word and processes it
ReadyReceive ==
  /\ hs_pc = "wait_for_ready" /\ hs_i < CORE1_READY_TIMEOUT_MS /\ fifo # <<>>
  /\ FifoPop
  /\ LET result == process_ready_message(Head(fifo))
     IN IF result # "0xFF"
        THEN HandshakeReturn(result)
        ELSE hs_i' = hs_i + 1 /\ UNCHANGED <<hs_pc, hs_result>>
  /\ UNCHANGED <<hs_pushed, nothandshakevars>>

\* wait_for_ready leaves its loop
ReadyTimeout ==
  /\ hs_pc = "wait_for_ready" /\ hs_i >= CORE1_READY_TIMEOUT_MS
  /\ HandshakeReturn("HANDSHAKE_READY_TIMEOUT")
  /\ UNCHANGED <<fifo, hs_received, hs_pushed, nothandshakevars>>

\* Core 1: handshake_send_alive, handshake_send_ready, handshake_send_failed
\* or a progress word, at any time and in any order
Core1FifoPush ==
  /\ hs_pushed < MaxWords
  /\ \E w \in Core1Words : fifo' = Append(fifo, w)
  /\ hs_pushed' = hs_pushed + 1
  /\ UNCHANGED <<hs_pc, hs_i, hs_result, hs_received, nothandshakevars>>

\* the steps of Core 0 inside the call
HandshakeCore0 ==
  \/ handshake_wait_for_core1 \/ AliveWait \/ AliveReceive \/ AliveTimeout
  \/ ReadyWait \/ ReadyReceive \/ ReadyTimeout

HandshakeNext == HandshakeCore0 \/ Core1FifoPush

HandshakeInit ==
  /\ PowerOn /\ leak_pin = FALSE /\ StateMachineIdle /\ BallastIdle /\ LogIdle
  /\ PidIdle /\ AxisIdle /\ HandshakeIdle

\* Core 0 executes nothing but the call, and sleep_ms(1) returns: the call
\* keeps taking steps
HandshakeSpec ==
  HandshakeInit /\ [][HandshakeNext]_handshakevars
    /\ WF_handshakevars(HandshakeCore0)

\* the words popped after the first one
LaterWords == {hs_received[i] : i \in 2..Len(hs_received)}

\* what the value returned tells about the words received
HandshakeResultMatches ==
  /\ hs_result = "HANDSHAKE_OK" <=>
       /\ Len(hs_received) >= 2 /\ hs_received[1] = "CORE1_ALIVE_MAGIC"
       /\ hs_received[Len(hs_received)] = "CORE1_READY_MAGIC"
  /\ hs_result = "HANDSHAKE_ALIVE_TIMEOUT" <=> hs_received = <<>>
  /\ hs_result = "HANDSHAKE_ALIVE_BAD_MAGIC" <=>
       Len(hs_received) = 1 /\ hs_received[1] # "CORE1_ALIVE_MAGIC"
  /\ hs_result = "HANDSHAKE_INIT_FAILED" <=>
       /\ Len(hs_received) >= 2 /\ hs_received[1] = "CORE1_ALIVE_MAGIC"
       /\ hs_received[Len(hs_received)] = "CORE1_INIT_FAILED"
  /\ hs_result = "HANDSHAKE_READY_TIMEOUT" <=>
       /\ Len(hs_received) >= 1 /\ hs_received[1] = "CORE1_ALIVE_MAGIC"
       /\ LaterWords \cap {"CORE1_READY_MAGIC", "CORE1_INIT_FAILED"} = {}
       /\ hs_i = CORE1_READY_TIMEOUT_MS
  /\ hs_result = "HANDSHAKE_ALIVE_TIMEOUT" => hs_i = CORE1_ALIVE_TIMEOUT_MS

\* the timeout of the wait the call is in
StageTimeout ==
  IF hs_pc = "wait_for_alive" THEN CORE1_ALIVE_TIMEOUT_MS
  ELSE CORE1_READY_TIMEOUT_MS

\* C40: the call returns HANDSHAKE_OK only when the first word popped is the
\* ALIVE magic, popped before the ALIVE wait ran out, and a READY magic is
\* popped later, before the READY wait ran out; no word at all gives
\* ALIVE_TIMEOUT, a wrong first word ALIVE_BAD_MAGIC, an INIT_FAILED word
\* after ALIVE gives INIT_FAILED, neither READY nor INIT_FAILED after ALIVE
\* gives READY_TIMEOUT; the loop counters stay within the two timeouts, every
\* step of the call advances its counter, its stage or returns, and whatever
\* Core 1 pushes the call returns.
C40_HandshakeResultAndBoundedWaits ==
  /\ [](/\ hs_pc # "assert"
        /\ hs_pc \in {"wait_for_alive", "wait_for_ready"} => hs_i <= StageTimeout
        /\ hs_pc = "returned" => HandshakeResultMatches
        /\ hs_pc # "returned" => hs_result = "none")
  /\ [][ /\ Len(hs_received') > Len(hs_received) => hs_i < StageTimeout
         /\ (hs_pc \in {"wait_for_alive", "wait_for_ready"} /\ hs_pushed' = hs_pushed)
              => \/ hs_pc' = hs_pc /\ hs_i' = hs_i + 1
                 \/ hs_pc = "wait_for_alive" /\ hs_pc' = "wait_for_ready"
                 \/ hs_pc' = "returned" ]_handshakevars
  /\ <>(hs_pc = "returned")

\* READY arrives in the last iteration of the READY wait, after ALIVE and a
\* progress word
C40_Witness ==
  /\ hs_pc = "returned" /\ hs_result = "HANDSHAKE_OK"
  /\ hs_received = <<"CORE1_ALIVE_MAGIC", "BOOT_STAGE_PRESSURE", "CORE1_READY_MAGIC">>
  /\ hs_i = CORE1_READY_TIMEOUT_MS - 1

====
